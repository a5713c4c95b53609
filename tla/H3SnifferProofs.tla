-------------------------- MODULE H3SnifferProofs --------------------------
(* Proofs about H3Sniffer, for any streams, workers, connection objects,    *)
(* plans, static table and ring buffers.                                    *)
EXTENDS H3Sniffer, FiniteSetTheorems, SequenceTheorems, TLAPS

-----------------------------------------------------------------------------
(* How many of the first events of a ring buffer are of an object.          *)

OfConn(ring, c, n) == {j \in 1 .. n : ring[j].conn = c}
Ahead(ring, c, n) == Cardinality(OfConn(ring, c, n))
One(b) == IF b THEN 1 ELSE 0

LEMMA AheadType ==
  ASSUME NEW ring, NEW c, NEW n \in Nat
  PROVE  IsFiniteSet(OfConn(ring, c, n)) /\ Ahead(ring, c, n) \in Nat
<1>1. IsFiniteSet(1 .. n) /\ OfConn(ring, c, n) \in SUBSET (1 .. n)
  BY FS_Interval DEF OfConn
<1> QED BY <1>1, FS_Subset, FS_CardinalityType DEF Ahead

LEMMA AheadNone ==
  ASSUME NEW ring, NEW c
  PROVE  Ahead(ring, c, 0) = 0
<1>1. OfConn(ring, c, 0) = {}
  BY DEF OfConn
<1> QED BY <1>1, FS_EmptySet DEF Ahead

LEMMA AheadNext ==
  ASSUME NEW ring, NEW c, NEW n \in Nat
  PROVE  Ahead(ring, c, n + 1) = Ahead(ring, c, n) + One(ring[n + 1].conn = c)
<1>1. n + 1 \notin OfConn(ring, c, n)
  BY DEF OfConn
<1>2. CASE ring[n + 1].conn = c
  <2>1. OfConn(ring, c, n + 1) = OfConn(ring, c, n) \cup {n + 1}
    BY <1>2 DEF OfConn
  <2> QED BY <2>1, <1>1, <1>2, AheadType, FS_AddElement DEF One, Ahead
<1>3. CASE ring[n + 1].conn # c
  <2>1. OfConn(ring, c, n + 1) = OfConn(ring, c, n)
    BY <1>3 DEF OfConn
  <2> QED BY <2>1, <1>3, AheadType DEF One, Ahead
<1> QED BY <1>2, <1>3

LEMMA AheadAppend ==
  ASSUME NEW S, NEW ring \in Seq(S), NEW e \in S, NEW c, NEW n \in 0 .. Len(ring)
  PROVE  Ahead(Append(ring, e), c, n) = Ahead(ring, c, n)
<1>1. OfConn(Append(ring, e), c, n) = OfConn(ring, c, n)
  BY DEF OfConn
<1> QED BY <1>1 DEF Ahead

LEMMA AheadTail ==
  ASSUME NEW S, NEW ring \in Seq(S), ring # <<>>, NEW c, NEW n \in 0 .. Len(ring) - 1
  PROVE  Ahead(ring, c, n + 1) = Ahead(Tail(ring), c, n) + One(Head(ring).conn = c)
<1> DEFINE Later == OfConn(ring, c, n + 1) \ {1}
           T == OfConn(Tail(ring), c, n)
<1>1. /\ Len(ring) \in Nat \ {0} /\ Head(ring) = ring[1]
      /\ \A i \in 1 .. Len(ring) - 1 : Tail(ring)[i] = ring[i + 1]
  OBVIOUS
<1>2. Cardinality(Later) = Cardinality(T)
  <2> DEFINE shift == [i \in T |-> i + 1]
  <2>1. shift \in [T -> Later]
    BY <1>1 DEF OfConn
  <2>2. \A i, j \in T : shift[i] = shift[j] => i = j
    BY <1>1 DEF OfConn
  <2>3. \A k \in Later : \E i \in T : shift[i] = k
    <3> SUFFICES ASSUME NEW k \in Later
                 PROVE  k - 1 \in T /\ shift[k - 1] = k
      OBVIOUS
    <3> QED BY <1>1 DEF OfConn
  <2>4. ExistsBijection(T, Later)
    <3> HIDE DEF T, Later, shift
    <3> QED BY <2>1, <2>2, <2>3 DEF ExistsBijection, Bijection, Injection, Surjection, IsInjective
  <2> QED BY <2>4, AheadType, FS_Bijection
<1>3. IsFiniteSet(OfConn(ring, c, n + 1)) /\ Ahead(ring, c, n + 1) \in Nat
  BY AheadType
<1>4. Cardinality(Later) = IF 1 \in OfConn(ring, c, n + 1) THEN Ahead(ring, c, n + 1) - 1
                           ELSE Ahead(ring, c, n + 1)
  BY <1>3, FS_RemoveElement DEF Ahead
<1>5. 1 \in OfConn(ring, c, n + 1) <=> Head(ring).conn = c
  BY <1>1 DEF OfConn
<1> QED BY <1>2, <1>3, <1>4, <1>5 DEF One, Ahead

-----------------------------------------------------------------------------
(* Types. A worker is in a call for a stream that is its own and holds the  *)
(* object of the call; no object of a worker is held by two streams.        *)

StreamRecord == [st : {"new", "headers", "reply", "closed"},
                 w : Workers \cup {None}, conn : Conns \cup {None},
                 fields : Nat, base : Nat, replied : Nat, inserted : Nat]
FieldEvent == [conn : Conns, ret : {"ok", "done"}, ip : Ips, field : Fields \cup {None}]
RespEvent == [conn : Conns, ip : Ips, dynamic : BOOLEAN, index : Nat, value : Fields,
              means : Meanings]
TableEvent == [conn : Conns, op : {"insert", "ref_insert", "duplicate"}, dynamic : BOOLEAN,
               index : Nat, name : Fields]
Response == [ip : Ips, fields : Seq(RespField)]

NginxType ==
  /\ plan \in Plans
  /\ stream \in [Streams -> StreamRecord]
  /\ table \in [Streams -> Seq(Names)]
  /\ st_map \in [Workers -> Conns \cup {None}]
  /\ pid_conn_map \in [Workers -> Conns \cup {None}]

RingType ==
  /\ events \in Seq(FieldEvent) /\ Len(events) <= MaxRing
  /\ resp_events \in Seq(RespEvent) /\ Len(resp_events) <= MaxRing
  /\ table_events \in Seq(TableEvent) /\ Len(table_events) <= MaxRing

DaemonType ==
  /\ pendingReq \in [Conns -> Request \cup {None}]
  /\ \A c \in Conns : pendingReq[c] # None => pendingReq[c].fields # <<>>
  /\ pendingResp \in [Conns -> Pending \cup {None}]
  /\ \A c \in Conns : pendingResp[c] # None => pendingResp[c].fields # <<>>
  /\ dynamicTables \in [Conns -> Seq(Names)]
  /\ rev \in Reading \cup {None}
  /\ idle \subseteq {c \in Conns : pendingResp[c] # None}
  /\ toEmit \subseteq Pending
  /\ requests \in Seq(Request)
  /\ responses \in Seq(Response)

OwnObject ==
  /\ \A s, t \in Streams :
       stream[s].conn # None /\ stream[s].conn = stream[t].conn /\ stream[s].w = stream[t].w => s = t
  /\ \A s \in Streams :
       /\ stream[s].st = "new" => stream[s].conn = None /\ stream[s].inserted = 0
       /\ stream[s].st \in {"new", "headers"} => stream[s].replied = 0
       /\ stream[s].st = "reply" => stream[s].conn # None
       /\ stream[s].conn # None => /\ stream[s].w # None /\ pid_conn_map[stream[s].w] # None
                                  /\ stream[s].inserted <= Len(table[s])
       /\ stream[s].inserted <= Len(plan[s].table)
  /\ \A w \in Workers : st_map[w] # None =>
       \E s \in Streams : stream[s].conn = st_map[w] /\ stream[s].w = w /\ stream[s].st = "headers"

\* A response that has begun refers to entries that were there.
BaseReached ==
  \A s \in Streams : stream[s].conn # None /\ stream[s].replied > 0 =>
    /\ stream[s].base <= Len(table[s])
    /\ \A i \in 1 .. Len(plan[s].reply) :
         plan[s].reply[i].dynamic => plan[s].reply[i].index < stream[s].base

Types == NginxType /\ RingType /\ DaemonType /\ OwnObject /\ BaseReached

-----------------------------------------------------------------------------
(* Instruction e is the one that has put entry p into table t.              *)

Brings(e, t, p) ==
  /\ p \in 1 .. Len(t)
  /\ CASE e.op = "insert" -> t[p] = e.name
       [] e.op = "ref_insert" /\ ~e.dynamic -> e.index < StaticLen /\ t[p] = StaticName(e.index)
       [] OTHER -> e.index + 1 < p /\ t[p] = t[p - 1 - e.index]

-----------------------------------------------------------------------------
(* What the actions do to the streams. *)

\* Nothing changes but stream s, of which the named fields are as before.
Only(s) == stream' \in [Streams -> StreamRecord] /\ \A t \in Streams \ {s} : stream'[t] = stream[t]
SameProgress(s) ==
  /\ stream'[s].fields = stream[s].fields /\ stream'[s].base = stream[s].base
  /\ stream'[s].replied = stream[s].replied /\ stream'[s].inserted = stream[s].inserted

LEMMA EntryStream ==
  ASSUME NginxType, NEW w \in Workers, NEW s \in Streams, NEW c \in Conns,
         entry_parse_headers(w, s, c)
  PROVE  /\ Only(s) /\ SameProgress(s)
         /\ stream'[s].st = "headers" /\ stream'[s].conn = c /\ stream'[s].w = w
<1>1. stream \in [Streams -> StreamRecord]
  BY DEF NginxType
<1>2. stream' = [stream EXCEPT ![s].st = "headers", ![s].conn = c, ![s].w = w]
  BY DEF entry_parse_headers
<1> QED BY <1>1, <1>2 DEF StreamRecord, Only, SameProgress

LEMMA EndedStream ==
  ASSUME NginxType, NEW s \in Streams, stream' = Ended(s)
  PROVE  /\ Only(s) /\ SameProgress(s)
         /\ stream'[s].st = "closed" /\ stream'[s].conn = None /\ stream'[s].w = None
<1>1. stream \in [Streams -> StreamRecord]
  BY DEF NginxType
<1> QED BY <1>1, ZenonT(60) DEF StreamRecord, Only, SameProgress, Ended

LEMMA ReturnStream ==
  ASSUME NginxType, NEW s \in Streams, NEW n \in Nat, NEW rc \in {"ok", "done"},
         stream' = [stream EXCEPT ![s].fields = n, ![s].st = IF rc = "done" THEN "reply" ELSE @]
  PROVE  /\ Only(s)
         /\ stream'[s].st = (IF rc = "done" THEN "reply" ELSE stream[s].st)
         /\ stream'[s].conn = stream[s].conn /\ stream'[s].w = stream[s].w
         /\ stream'[s].fields = n /\ stream'[s].base = stream[s].base
         /\ stream'[s].replied = stream[s].replied /\ stream'[s].inserted = stream[s].inserted
<1>1. stream \in [Streams -> StreamRecord]
  BY DEF NginxType
<1> QED BY <1>1 DEF StreamRecord, Only

LEMMA EncodeStream ==
  ASSUME NginxType, NEW s \in Streams, NEW k \in Nat, NEW b \in Nat,
         stream' = [stream EXCEPT ![s].replied = k, ![s].base = b]
  PROVE  /\ Only(s)
         /\ stream'[s].st = stream[s].st /\ stream'[s].conn = stream[s].conn
         /\ stream'[s].w = stream[s].w /\ stream'[s].fields = stream[s].fields
         /\ stream'[s].base = b /\ stream'[s].replied = k
         /\ stream'[s].inserted = stream[s].inserted
<1>1. stream \in [Streams -> StreamRecord]
  BY DEF NginxType
<1> QED BY <1>1 DEF StreamRecord, Only

LEMMA InsertStream ==
  ASSUME NginxType, NEW s \in Streams, NEW k \in Nat, stream' = [stream EXCEPT ![s].inserted = k]
  PROVE  /\ Only(s)
         /\ stream'[s].st = stream[s].st /\ stream'[s].conn = stream[s].conn
         /\ stream'[s].w = stream[s].w /\ stream'[s].fields = stream[s].fields
         /\ stream'[s].base = stream[s].base /\ stream'[s].replied = stream[s].replied
         /\ stream'[s].inserted = k
<1>1. stream \in [Streams -> StreamRecord]
  BY DEF NginxType
<1> QED BY <1>1 DEF StreamRecord, Only

LEMMA AppendNotEmpty ==
  ASSUME NEW S, NEW seq \in Seq(S), NEW e \in S
  PROVE  Append(seq, e) \in Seq(S) /\ Append(seq, e) # <<>>
<1>1. Len(Append(seq, e)) = Len(seq) + 1 /\ Len(seq) \in Nat
  OBVIOUS
<1> QED BY <1>1

LEMMA AppendFits ==
  ASSUME NEW S, NEW ring \in Seq(S), Len(ring) < MaxRing, NEW e \in S
  PROVE  Append(ring, e) \in Seq(S) /\ Len(Append(ring, e)) <= MaxRing
BY H3Assumption

LEMMA AddrTextType ==
  ASSUME NEW w, NEW c
  PROVE  AddrText(w, c) \in Ips
<1>1. CASE Holders(w, c) = {}
  BY <1>1 DEF AddrText, Ips
<1>2. CASE Holders(w, c) # {}
  <2>1. (CHOOSE s \in Holders(w, c) : TRUE) \in Streams
    BY <1>2 DEF Holders
  <2> QED BY <1>2, <2>1 DEF AddrText, Ips
<1> QED BY <1>1, <1>2

\* The stream whose headers a worker is in a call for.
LEMMA ParsedIsOwn ==
  ASSUME NginxType, OwnObject, NEW w \in Workers, st_map[w] # None
  PROVE  /\ Parsed(w) \in Streams /\ stream[Parsed(w)].conn = st_map[w]
         /\ stream[Parsed(w)].w = w /\ stream[Parsed(w)].st = "headers"
         /\ AddrText(w, st_map[w]) = Addr[Parsed(w)]
<1>1. PICK s \in Streams : stream[s].conn = st_map[w] /\ stream[s].w = w /\ stream[s].st = "headers"
  BY DEF OwnObject
<1>2. \A t \in Streams : stream[t].conn = st_map[w] /\ stream[t].w = w => t = s
  BY <1>1 DEF OwnObject
<1>3. Holders(w, st_map[w]) = {s}
  BY <1>1, <1>2 DEF Holders
<1>4. Parsed(w) = s
  BY <1>3 DEF Parsed
<1>5. (CHOOSE t \in Holders(w, st_map[w]) : TRUE) = s
  BY <1>3
<1> QED BY <1>1, <1>3, <1>4, <1>5 DEF AddrText

LEMMA PlanType ==
  ASSUME NginxType, NEW s \in Streams
  PROVE  /\ plan[s].request \in Nat
         /\ plan[s].reply \in Seq(References)
         /\ plan[s].table \in Seq(Instructions)
         /\ \A k \in 1 .. Len(plan[s].table) : Resolvable(plan[s].table[k], k)
         /\ \A k \in 1 .. Len(plan[s].reply) :
              plan[s].reply[k].dynamic \/ plan[s].reply[k].index < StaticLen
         /\ stream[s] \in StreamRecord
BY H3Assumption DEF NginxType

-----------------------------------------------------------------------------
(* The steps of nginx keep the types.                                       *)

LEMMA EntryKeeps ==
  ASSUME Types, NEW w \in Workers, NEW s \in Streams, NEW c \in Conns,
         entry_parse_headers(w, s, c), UNCHANGED daemonVars
  PROVE  Types'
<1>1. /\ Only(s) /\ SameProgress(s)
      /\ stream'[s].st = "headers" /\ stream'[s].conn = c /\ stream'[s].w = w
  BY EntryStream DEF Types
<1>2. /\ st_map' = [st_map EXCEPT ![w] = c] /\ pid_conn_map' = [pid_conn_map EXCEPT ![w] = c]
      /\ UNCHANGED <<plan, table, events, resp_events, table_events>>
      /\ st_map[w] = None
      /\ \/ stream[s].st = "new" /\ Holders(w, c) = {}
         \/ stream[s].st = "headers" /\ stream[s].conn = c /\ stream[s].w = w
  BY DEF entry_parse_headers
<1>3. NginxType'
  BY <1>1, <1>2 DEF Types, NginxType, Only
<1>4. c # None /\ w # None
  BY H3Assumption
<1>5. \A t \in Streams \ {s} : stream'[t] = stream[t] /\ ~(stream[t].conn = c /\ stream[t].w = w)
  BY <1>1, <1>2, <1>4 DEF Types, OwnObject, Holders, Only
<1>6. stream[s] \in StreamRecord /\ \A t \in Streams : plan'[t] = plan[t]
  BY <1>2 DEF Types, NginxType
<1>7. OwnObject'
  <2>1. \A r, t \in Streams :
          stream'[r].conn # None /\ stream'[r].conn = stream'[t].conn /\ stream'[r].w = stream'[t].w
            => r = t
    BY <1>1, <1>5 DEF Types, OwnObject
  <2>2. \A x \in Workers : st_map'[x] # None =>
          \E t \in Streams : stream'[t].conn = st_map'[x] /\ stream'[t].w = x /\ stream'[t].st = "headers"
    <3> SUFFICES ASSUME NEW x \in Workers, st_map'[x] # None
                 PROVE  \E t \in Streams : /\ stream'[t].conn = st_map'[x] /\ stream'[t].w = x
                                           /\ stream'[t].st = "headers"
      OBVIOUS
    <3>1. CASE x = w
      BY <3>1, <1>1, <1>2 DEF Types, NginxType
    <3>2. CASE x # w
      <4>1. st_map'[x] = st_map[x]
        BY <3>2, <1>2 DEF Types, NginxType
      <4>2. PICK t \in Streams : stream[t].conn = st_map[x] /\ stream[t].w = x /\ stream[t].st = "headers"
        BY <4>1 DEF Types, OwnObject
      <4>3. t # s \/ stream[s].st = "new"
        BY <3>2, <4>2, <1>2
      <4> QED BY <4>1, <4>2, <4>3, <1>5
    <3> QED BY <3>1, <3>2
  <2>3. \A t \in Streams :
          /\ stream'[t].st = "new" => stream'[t].conn = None /\ stream'[t].inserted = 0
          /\ stream'[t].st \in {"new", "headers"} => stream'[t].replied = 0
          /\ stream'[t].st = "reply" => stream'[t].conn # None
          /\ stream'[t].inserted <= Len(plan'[t].table)
    BY <1>1, <1>2, <1>5, <1>6 DEF Types, OwnObject, SameProgress
  <2>4. \A t \in Streams : stream'[t].conn # None =>
          /\ stream'[t].w # None /\ pid_conn_map'[stream'[t].w] # None
          /\ stream'[t].inserted <= Len(table'[t])
    <3> SUFFICES ASSUME NEW t \in Streams, stream'[t].conn # None
                 PROVE  /\ stream'[t].w # None /\ pid_conn_map'[stream'[t].w] # None
                        /\ stream'[t].inserted <= Len(table'[t])
      OBVIOUS
    <3>1. CASE t = s
      <4>1. Len(table[s]) \in Nat
        BY DEF Types, NginxType
      <4>2. stream[s].inserted <= Len(table[s])
        BY <1>2, <1>4, <4>1 DEF Types, OwnObject
      <4>3. pid_conn_map'[w] = c
        BY <1>2 DEF Types, NginxType
      <4> QED BY <3>1, <4>2, <4>3, <1>1, <1>2, <1>4 DEF SameProgress
    <3>2. CASE t # s
      <4>1. stream[t].w \in Workers /\ pid_conn_map[stream[t].w] # None
        BY <3>2, <1>5, PlanType DEF Types, OwnObject, StreamRecord
      <4>2. pid_conn_map'[stream[t].w] # None
        BY <4>1, <1>2, <1>4 DEF Types, NginxType
      <4> QED BY <3>2, <4>1, <4>2, <1>2, <1>5 DEF Types, OwnObject
    <3> QED BY <3>1, <3>2
  <2> QED BY <2>1, <2>2, <2>3, <2>4 DEF OwnObject
<1>8. BaseReached'
  <2>1. stream'[s].replied = 0
    BY <1>1, <1>2 DEF Types, OwnObject, SameProgress
  <2> QED BY <2>1, <1>2, <1>5 DEF Types, BaseReached
<1>9. RingType' /\ DaemonType'
  BY <1>2 DEF Types, RingType, DaemonType, daemonVars
<1> QED BY <1>3, <1>7, <1>8, <1>9 DEF Types

\* A stream that ends: its worker is in no call for another stream.
LEMMA EndedKeeps ==
  ASSUME Types, NEW w \in Workers, NEW s \in Streams, stream[s].w = w, stream[s].conn # None,
         stream' = Ended(s), st_map' = [st_map EXCEPT ![w] = None],
         UNCHANGED <<plan, table, pid_conn_map, events, resp_events, table_events, daemonVars>>
  PROVE  Types'
<1>1. /\ Only(s) /\ SameProgress(s)
      /\ stream'[s].st = "closed" /\ stream'[s].conn = None /\ stream'[s].w = None
  BY EndedStream DEF Types
<1>2. NginxType'
  BY <1>1 DEF Types, NginxType, Only
<1>3. \A t \in Streams \ {s} : stream'[t] = stream[t]
  BY <1>1 DEF Only
<1>4. OwnObject'
  <2>1. \A r, t \in Streams :
          stream'[r].conn # None /\ stream'[r].conn = stream'[t].conn /\ stream'[r].w = stream'[t].w
            => r = t
    BY <1>1, <1>3 DEF Types, OwnObject
  <2>2. \A x \in Workers : st_map'[x] # None =>
          \E t \in Streams : stream'[t].conn = st_map'[x] /\ stream'[t].w = x /\ stream'[t].st = "headers"
    <3> SUFFICES ASSUME NEW x \in Workers, st_map'[x] # None
                 PROVE  \E t \in Streams : /\ stream'[t].conn = st_map'[x] /\ stream'[t].w = x
                                           /\ stream'[t].st = "headers"
      OBVIOUS
    <3>1. x # w /\ st_map'[x] = st_map[x]
      BY DEF Types, NginxType
    <3>2. PICK t \in Streams : stream[t].conn = st_map[x] /\ stream[t].w = x /\ stream[t].st = "headers"
      BY <3>1 DEF Types, OwnObject
    <3> QED BY <3>1, <3>2, <1>3
  <2>3. \A t \in Streams :
          /\ stream'[t].st = "new" => stream'[t].conn = None /\ stream'[t].inserted = 0
          /\ stream'[t].st \in {"new", "headers"} => stream'[t].replied = 0
          /\ stream'[t].st = "reply" => stream'[t].conn # None
          /\ stream'[t].inserted <= Len(plan'[t].table)
    BY <1>1, <1>3 DEF Types, OwnObject, SameProgress
  <2>4. \A t \in Streams : stream'[t].conn # None =>
          /\ stream'[t].w # None /\ pid_conn_map'[stream'[t].w] # None
          /\ stream'[t].inserted <= Len(table'[t])
    BY <1>1, <1>3 DEF Types, OwnObject
  <2> QED BY <2>1, <2>2, <2>3, <2>4 DEF OwnObject
<1>5. BaseReached'
  BY <1>1, <1>3 DEF Types, BaseReached
<1>6. RingType' /\ DaemonType'
  BY DEF Types, RingType, DaemonType, daemonVars
<1> QED BY <1>2, <1>4, <1>5, <1>6 DEF Types

LEMMA ErrorKeeps ==
  ASSUME Types, NEW w \in Workers, ret_parse_headers_error(w), UNCHANGED daemonVars
  PROVE  Types'
<1>1. st_map[w] # None
  BY DEF ret_parse_headers_error
<1>2. Parsed(w) \in Streams /\ stream[Parsed(w)].conn # None /\ stream[Parsed(w)].w = w
  BY <1>1, ParsedIsOwn DEF Types
<1> QED BY <1>2, EndedKeeps DEF ret_parse_headers_error

LEMMA CloseKeeps ==
  ASSUME Types, NEW w \in Workers, NEW s \in Streams, CloseStream(w, s), UNCHANGED daemonVars
  PROVE  Types'
<1>1. st_map' = [st_map EXCEPT ![w] = None]
  BY DEF Types, NginxType, CloseStream, h3Maps
<1> QED BY <1>1, EndedKeeps DEF CloseStream, h3Maps

LEMMA AgainKeeps ==
  ASSUME Types, NEW w \in Workers, ret_parse_headers_again(w), UNCHANGED daemonVars
  PROVE  Types'
<1>1. st_map' = [st_map EXCEPT ![w] = None]
      /\ UNCHANGED <<plan, stream, table, pid_conn_map, events, resp_events, table_events>>
  BY DEF ret_parse_headers_again
<1>2. NginxType'
  BY <1>1 DEF Types, NginxType
<1>3. OwnObject'
  <2>1. \A x \in Workers : st_map'[x] # None => st_map'[x] = st_map[x]
    BY <1>1 DEF Types, NginxType
  <2> QED BY <2>1, <1>1 DEF Types, OwnObject
<1>4. BaseReached'
  BY <1>1 DEF Types, BaseReached
<1>5. RingType' /\ DaemonType'
  BY <1>1 DEF Types, RingType, DaemonType, daemonVars
<1> QED BY <1>2, <1>3, <1>4, <1>5 DEF Types

LEMMA ReturnEffect ==
  ASSUME Types, NEW w \in Workers, NEW rc \in {"ok", "done"}, ret_parse_headers(w, rc)
  PROVE  LET s == Parsed(w)
             n == stream[s].fields
             more == n < plan[s].request
             e == [conn |-> stream[s].conn, ret |-> rc, ip |-> Addr[s],
                   field |-> IF more THEN <<s, n + 1>> ELSE None] IN
         /\ s \in Streams /\ n \in Nat /\ plan[s].request \in Nat
         /\ stream[s].st = "headers" /\ stream[s].w = w /\ stream[s].conn \in Conns
         /\ IF rc = "ok" THEN more ELSE n + 1 >= plan[s].request
         /\ Only(s)
         /\ stream'[s].st = (IF rc = "done" THEN "reply" ELSE "headers")
         /\ stream'[s].fields = (IF more THEN n + 1 ELSE n)
         /\ stream'[s].conn = stream[s].conn /\ stream'[s].w = w
         /\ stream'[s].base = stream[s].base /\ stream'[s].replied = stream[s].replied
         /\ stream'[s].inserted = stream[s].inserted
         /\ e \in FieldEvent
         /\ \/ Len(events) < MaxRing /\ events' = Append(events, e) /\ broken' = broken
            \/ events' = events /\ broken' = broken \cup {s}
<1>1. st_map[w] # None
  BY DEF ret_parse_headers
<1> DEFINE s == Parsed(w)
<1>2. /\ s \in Streams /\ stream[s].conn = st_map[w] /\ stream[s].w = w
      /\ stream[s].st = "headers" /\ AddrText(w, st_map[w]) = Addr[s]
  BY <1>1, ParsedIsOwn DEF Types
<1>3. st_map[w] \in Conns
  BY <1>1 DEF Types, NginxType
<1> DEFINE n == stream[s].fields
           more == n < plan[s].request
           k == IF more THEN n + 1 ELSE n
           e == [conn |-> st_map[w], ret |-> rc, ip |-> AddrText(w, st_map[w]),
                 field |-> IF more THEN <<s, n + 1>> ELSE None]
<1>4. n \in Nat /\ k \in Nat /\ plan[s].request \in Nat
  BY <1>2, PlanType DEF Types, StreamRecord
<1>5. /\ stream' = [stream EXCEPT ![s].fields = k, ![s].st = IF rc = "done" THEN "reply" ELSE @]
      /\ IF rc = "ok" THEN more ELSE n + 1 >= plan[s].request
      /\ \/ HasRoom(events) /\ events' = Append(events, e) /\ broken' = broken
         \/ events' = events /\ broken' = broken \cup {s}
  BY DEF ret_parse_headers
<1>6. e \in FieldEvent
  BY <1>2, <1>3, <1>4 DEF FieldEvent, Ips, Fields
<1>7. Len(events) < MaxRing <=> HasRoom(events)
  BY DEF HasRoom
<1> HIDE DEF s
<1>8. /\ Only(s)
      /\ stream'[s].st = (IF rc = "done" THEN "reply" ELSE stream[s].st)
      /\ stream'[s].conn = stream[s].conn /\ stream'[s].w = stream[s].w
      /\ stream'[s].fields = k /\ stream'[s].base = stream[s].base
      /\ stream'[s].replied = stream[s].replied /\ stream'[s].inserted = stream[s].inserted
  <2> HIDE DEF k
  <2> QED BY <1>2, <1>4, <1>5, ReturnStream DEF Types
<1> USE DEF s
<1> QED BY <1>2, <1>3, <1>4, <1>5, <1>6, <1>7, <1>8

LEMMA ReturnKeeps ==
  ASSUME Types, NEW w \in Workers, NEW rc \in {"ok", "done"}, ret_parse_headers(w, rc),
         UNCHANGED daemonVars
  PROVE  Types'
<1> DEFINE s == Parsed(w)
<1>1. /\ s \in Streams /\ stream[s].st = "headers" /\ stream[s].w = w /\ stream[s].conn \in Conns
      /\ Only(s)
      /\ stream'[s].st \in {"headers", "reply"}
      /\ stream'[s].conn = stream[s].conn /\ stream'[s].w = w
      /\ stream'[s].replied = stream[s].replied /\ stream'[s].inserted = stream[s].inserted
  BY ReturnEffect, ZenonT(60)
<1>2. \/ events' = events
      \/ Len(events) < MaxRing /\ \E e \in FieldEvent : events' = Append(events, e)
  BY ReturnEffect
<1>3. /\ st_map' = [st_map EXCEPT ![w] = None]
      /\ UNCHANGED <<plan, table, pid_conn_map, resp_events, table_events>>
  BY DEF ret_parse_headers
<1> HIDE DEF s
<1>4. NginxType'
  BY <1>1, <1>3 DEF Types, NginxType, Only
<1>5. \A t \in Streams \ {s} : stream'[t] = stream[t]
  BY <1>1 DEF Only
<1>6. stream[s].replied = 0
  BY <1>1 DEF Types, OwnObject
<1>7. OwnObject'
  <2>1. \A r, t \in Streams :
          stream'[r].conn # None /\ stream'[r].conn = stream'[t].conn /\ stream'[r].w = stream'[t].w
            => r = t
    BY <1>1, <1>5 DEF Types, OwnObject
  <2>2. \A x \in Workers : st_map'[x] # None =>
          \E t \in Streams : stream'[t].conn = st_map'[x] /\ stream'[t].w = x /\ stream'[t].st = "headers"
    <3> SUFFICES ASSUME NEW x \in Workers, st_map'[x] # None
                 PROVE  \E t \in Streams : /\ stream'[t].conn = st_map'[x] /\ stream'[t].w = x
                                           /\ stream'[t].st = "headers"
      OBVIOUS
    <3>1. x # w /\ st_map'[x] = st_map[x]
      BY <1>3 DEF Types, NginxType
    <3>2. PICK t \in Streams : stream[t].conn = st_map[x] /\ stream[t].w = x /\ stream[t].st = "headers"
      BY <3>1 DEF Types, OwnObject
    <3> QED BY <3>1, <3>2, <1>1, <1>5
  <2>3. \A t \in Streams :
          /\ stream'[t].st = "new" => stream'[t].conn = None /\ stream'[t].inserted = 0
          /\ stream'[t].st \in {"new", "headers"} => stream'[t].replied = 0
          /\ stream'[t].st = "reply" => stream'[t].conn # None
          /\ stream'[t].inserted <= Len(plan'[t].table)
    BY <1>1, <1>3, <1>5, <1>6, H3Assumption DEF Types, OwnObject
  <2>4. \A t \in Streams : stream'[t].conn # None =>
          /\ stream'[t].w # None /\ pid_conn_map'[stream'[t].w] # None
          /\ stream'[t].inserted <= Len(table'[t])
    BY <1>1, <1>3, <1>5 DEF Types, OwnObject
  <2> QED BY <2>1, <2>2, <2>3, <2>4 DEF OwnObject
<1>8. BaseReached'
  BY <1>1, <1>3, <1>5, <1>6 DEF Types, BaseReached
<1>9. RingType'
  <2>1. events' \in Seq(FieldEvent) /\ Len(events') <= MaxRing
    BY <1>2, AppendFits DEF Types, RingType
  <2> QED BY <2>1, <1>3 DEF Types, RingType
<1>10. DaemonType'
  BY DEF Types, DaemonType, daemonVars
<1> QED BY <1>4, <1>7, <1>8, <1>9, <1>10 DEF Types

\* The event that a field of a response brings.
LEMMA EncodeEffect ==
  ASSUME Types, NEW w \in Workers, NEW s \in Streams, entry_encode_field_lri(w, s)
  PROVE  LET k == stream[s].replied + 1
             c == pid_conn_map[w]
             e == [conn |-> c, ip |-> AddrText(w, c), dynamic |-> plan[s].reply[k].dynamic,
                   index |-> plan[s].reply[k].index, value |-> <<s, k>>,
                   means |-> NameMeant(s, plan[s].reply[k])] IN
         /\ k \in 1 .. Len(plan[s].reply)
         /\ stream[s].st = "reply" /\ stream[s].w = w /\ stream[s].conn \in Conns /\ c \in Conns
         /\ Base(s) \in 0 .. Len(table[s])
         /\ \A i \in 1 .. Len(plan[s].reply) :
              plan[s].reply[i].dynamic => plan[s].reply[i].index < Base(s)
         /\ Only(s)
         /\ stream'[s].st = stream[s].st /\ stream'[s].conn = stream[s].conn
         /\ stream'[s].w = stream[s].w /\ stream'[s].fields = stream[s].fields
         /\ stream'[s].base = Base(s) /\ stream'[s].replied = k
         /\ stream'[s].inserted = stream[s].inserted
         /\ e \in RespEvent
         /\ \/ Len(resp_events) < MaxRing /\ resp_events' = Append(resp_events, e)
            \/ Len(resp_events) >= MaxRing /\ resp_events' = resp_events
<1> DEFINE k == stream[s].replied + 1
           c == pid_conn_map[w]
           o == stream[s].conn
           e == [conn |-> c, ip |-> AddrText(w, c), dynamic |-> plan[s].reply[k].dynamic,
                 index |-> plan[s].reply[k].index, value |-> <<s, k>>,
                 means |-> NameMeant(s, plan[s].reply[k])]
<1>1. /\ stream[s].st = "reply" /\ stream[s].w = w /\ k <= Len(plan[s].reply)
      /\ \A i \in 1 .. Len(plan[s].reply) :
           plan[s].reply[i].dynamic => plan[s].reply[i].index < stream[s].inserted
      /\ stream' = [stream EXCEPT ![s].replied = k, ![s].base = Base(s)]
      /\ resp_events' = IF HasRoom(resp_events) THEN Append(resp_events, e) ELSE resp_events
  BY DEF entry_encode_field_lri
<1>2. /\ stream[s].replied \in Nat /\ stream[s].base \in Nat /\ stream[s].inserted \in Nat
      /\ plan[s].reply \in Seq(References) /\ stream[s].conn \in Conns \cup {None}
  BY PlanType DEF Types, StreamRecord
<1>3. k \in 1 .. Len(plan[s].reply)
  BY <1>1, <1>2
<1>4. o # None /\ stream[s].inserted <= Len(table[s]) /\ c # None
  BY <1>1 DEF Types, OwnObject
<1>5. o \in Conns /\ c \in Conns /\ table[s] \in Seq(Names) /\ Len(table[s]) \in Nat
  BY <1>2, <1>4 DEF Types, NginxType
<1>6. Base(s) \in 0 .. Len(table[s])
  BY <1>2, <1>4, <1>5 DEF Types, BaseReached, Base
<1>7. \A i \in 1 .. Len(plan[s].reply) :
        plan[s].reply[i].dynamic => plan[s].reply[i].index < Base(s)
  <2> SUFFICES ASSUME NEW i \in 1 .. Len(plan[s].reply), plan[s].reply[i].dynamic
               PROVE  plan[s].reply[i].index < Base(s)
    OBVIOUS
  <2>1. plan[s].reply[i] \in References
    BY <1>2
  <2>2. plan[s].reply[i].index \in Nat
    BY <2>1 DEF References
  <2> QED BY <2>2, <1>1, <1>2, <1>4, <1>5, SMTT(20) DEF Types, BaseReached, Base
<1>8. e \in RespEvent
  <2> DEFINE ref == plan[s].reply[k]
  <2>1. ref \in References
    BY <1>2, <1>3
  <2>2. ref.dynamic => Base(s) - ref.index \in 1 .. Len(table[s])
    BY <2>1, <1>3, <1>6, <1>7, SMTT(20) DEF References
  <2>3. NameMeant(s, ref) \in Meanings
    <3> HIDE DEF ref
    <3>1. CASE ref.dynamic
      <4>1. table[s][Base(s) - ref.index] \in Names
        BY <3>1, <2>2, <1>5
      <4>2. Names \subseteq Meanings
        BY H3Assumption DEF Names, Meanings, StaticName
      <4> QED BY <3>1, <4>1, <4>2 DEF NameMeant
    <3>2. CASE ~ref.dynamic
      BY <3>2, <2>1 DEF NameMeant, Meanings, StaticName, References
    <3> QED BY <3>1, <3>2
  <2>4. <<s, k>> \in Fields
    BY <1>2 DEF Fields
  <2>5. AddrText(w, c) \in Ips
    BY AddrTextType
  <2>6. ref.dynamic \in BOOLEAN /\ ref.index \in Nat
    BY <2>1 DEF References
  <2> HIDE DEF c, k
  <2> QED BY <2>3, <2>4, <2>5, <2>6, <1>5, Zenon DEF RespEvent
<1>9. HasRoom(resp_events) <=> Len(resp_events) < MaxRing
  BY DEF HasRoom
<1>10. Len(resp_events) \in Nat /\ MaxRing \in Nat
  BY H3Assumption DEF Types, RingType
<1>11. k \in Nat /\ Base(s) \in Nat
  BY <1>3, <1>6, <1>5
<1>12. /\ Only(s)
       /\ stream'[s].st = stream[s].st /\ stream'[s].conn = stream[s].conn
       /\ stream'[s].w = stream[s].w /\ stream'[s].fields = stream[s].fields
       /\ stream'[s].base = Base(s) /\ stream'[s].replied = k
       /\ stream'[s].inserted = stream[s].inserted
  BY <1>1, <1>11, EncodeStream DEF Types
<1>13. \/ Len(resp_events) < MaxRing /\ resp_events' = Append(resp_events, e)
       \/ Len(resp_events) >= MaxRing /\ resp_events' = resp_events
  <2>1. /\ Len(resp_events) < MaxRing \/ Len(resp_events) >= MaxRing
        /\ Len(resp_events) >= MaxRing => ~(Len(resp_events) < MaxRing)
    BY ONLY <1>10
  <2>2. resp_events' = IF HasRoom(resp_events) THEN Append(resp_events, e) ELSE resp_events
    BY <1>1
  <2> HIDE DEF e
  <2> QED BY <2>1, <2>2, <1>9
<1>14. stream[s].st = "reply" /\ stream[s].w = w
  BY <1>1
<1> HIDE DEF e, k, c, o
<1> QED BY <1>3, <1>5, <1>6, <1>7, <1>8, <1>12, <1>13, <1>14 DEF e, k, c, o

LEMMA EncodeKeeps ==
  ASSUME Types, NEW w \in Workers, NEW s \in Streams, entry_encode_field_lri(w, s),
         UNCHANGED daemonVars
  PROVE  Types'
<1>1. /\ stream[s].st = "reply" /\ stream[s].conn \in Conns
      /\ Base(s) \in 0 .. Len(table[s])
      /\ \A i \in 1 .. Len(plan[s].reply) :
           plan[s].reply[i].dynamic => plan[s].reply[i].index < Base(s)
      /\ Only(s)
      /\ stream'[s].st = stream[s].st /\ stream'[s].conn = stream[s].conn
      /\ stream'[s].w = stream[s].w /\ stream'[s].base = Base(s)
      /\ stream'[s].inserted = stream[s].inserted
  BY EncodeEffect
<1>2. \/ resp_events' = resp_events
      \/ Len(resp_events) < MaxRing /\ \E e \in RespEvent : resp_events' = Append(resp_events, e)
  BY EncodeEffect
<1>3. UNCHANGED <<plan, table, st_map, pid_conn_map, events, table_events>>
  BY DEF entry_encode_field_lri, h3Maps
<1>4. NginxType'
  BY <1>1, <1>3 DEF Types, NginxType, Only
<1>5. \A t \in Streams \ {s} : stream'[t] = stream[t]
  BY <1>1 DEF Only
<1>6. OwnObject'
  <2>1. \A r, t \in Streams :
          stream'[r].conn # None /\ stream'[r].conn = stream'[t].conn /\ stream'[r].w = stream'[t].w
            => r = t
    BY <1>1, <1>5 DEF Types, OwnObject
  <2>2. \A x \in Workers : st_map'[x] # None =>
          \E t \in Streams : stream'[t].conn = st_map'[x] /\ stream'[t].w = x /\ stream'[t].st = "headers"
    BY <1>1, <1>3, <1>5 DEF Types, OwnObject
  <2>3. \A t \in Streams :
          /\ stream'[t].st = "new" => stream'[t].conn = None /\ stream'[t].inserted = 0
          /\ stream'[t].st \in {"new", "headers"} => stream'[t].replied = 0
          /\ stream'[t].st = "reply" => stream'[t].conn # None
          /\ stream'[t].inserted <= Len(plan'[t].table)
    BY <1>1, <1>3, <1>5, H3Assumption DEF Types, OwnObject
  <2>4. \A t \in Streams : stream'[t].conn # None =>
          /\ stream'[t].w # None /\ pid_conn_map'[stream'[t].w] # None
          /\ stream'[t].inserted <= Len(table'[t])
    BY <1>1, <1>3, <1>5 DEF Types, OwnObject
  <2> QED BY <2>1, <2>2, <2>3, <2>4 DEF OwnObject
<1>7. BaseReached'
  BY <1>1, <1>3, <1>5, SMTT(20) DEF Types, BaseReached
<1>8. RingType'
  <2>1. resp_events' \in Seq(RespEvent) /\ Len(resp_events') <= MaxRing
    BY <1>2, AppendFits DEF Types, RingType
  <2> QED BY <2>1, <1>3 DEF Types, RingType
<1>9. DaemonType'
  BY DEF Types, DaemonType, daemonVars
<1> QED BY <1>4, <1>6, <1>7, <1>8, <1>9 DEF Types

\* An instruction refers to an entry that is there.
LEMMA InsertEffect ==
  ASSUME Types, NEW w \in Workers, NEW s \in Streams, entry_table(w, s)
  PROVE  LET k == stream[s].inserted + 1
             c == stream[s].conn
             i == plan[s].table[k]
             e == [conn |-> c, op |-> i.op, dynamic |-> i.dynamic, index |-> i.index,
                   name |-> <<s, k>>] IN
         /\ c \in Conns /\ stream[s].w = w /\ e \in TableEvent /\ NameInserted(s, k) \in Names
         /\ table' = [table EXCEPT ![s] = Append(@, NameInserted(s, k))]
         /\ Brings(e, Append(table[s], NameInserted(s, k)), Len(table[s]) + 1)
         /\ k <= Len(plan[s].table)
         /\ Only(s)
         /\ stream'[s].st = stream[s].st /\ stream'[s].conn = stream[s].conn
         /\ stream'[s].w = stream[s].w /\ stream'[s].fields = stream[s].fields
         /\ stream'[s].base = stream[s].base /\ stream'[s].replied = stream[s].replied
         /\ stream'[s].inserted = k
         /\ \/ /\ Len(table_events) < MaxRing /\ table_events' = Append(table_events, e)
               /\ lostInserts' = lostInserts
            \/ table_events' = table_events /\ lostInserts' = lostInserts \cup {s}
<1> DEFINE k == stream[s].inserted + 1
           c == stream[s].conn
           t == table[s]
<1>1. /\ c # None /\ stream[s].w = w /\ k <= Len(plan[s].table)
      /\ stream' = [stream EXCEPT ![s].inserted = k]
      /\ table' = [table EXCEPT ![s] = Append(@, NameInserted(s, k))]
  BY DEF entry_table
<1>2. /\ stream[s].inserted \in Nat /\ c \in Conns /\ k \in Nat
      /\ plan[s].table \in Seq(Instructions)
      /\ \A j \in 1 .. Len(plan[s].table) : Resolvable(plan[s].table[j], j)
  BY <1>1, PlanType DEF Types, StreamRecord
<1>3. /\ t \in Seq(Names) /\ Len(t) \in Nat /\ stream[s].inserted <= Len(t)
  BY <1>1, <1>2 DEF Types, NginxType, OwnObject
<1>4. PICK i \in Instructions : i = plan[s].table[k] /\ Resolvable(i, k)
  BY <1>1, <1>2
<1>5. i.op \in {"insert", "ref_insert", "duplicate"} /\ i.dynamic \in BOOLEAN /\ i.index \in Nat
  BY <1>4 DEF Instructions
<1> DEFINE e == [conn |-> c, op |-> i.op, dynamic |-> i.dynamic, index |-> i.index, name |-> <<s, k>>]
<1>6. e \in TableEvent
  <2>1. <<s, k>> \in Fields
    BY <1>2 DEF Fields
  <2> HIDE DEF k, c
  <2> QED BY <2>1, <1>2, <1>5, Zenon DEF TableEvent
<1>7. \/ /\ Len(table_events) < MaxRing
         /\ table_events' = Append(table_events, e) /\ lostInserts' = lostInserts
      \/ table_events' = table_events /\ lostInserts' = lostInserts \cup {s}
  BY <1>4 DEF entry_table, HasRoom
<1> DEFINE x == NameInserted(s, k)
<1>8. x \in Names /\ Brings(e, Append(t, x), Len(t) + 1)
  <2>1. e.op = i.op /\ e.dynamic = i.dynamic /\ e.index = i.index /\ e.name = <<s, k>>
    OBVIOUS
  <2>2. /\ Len(t) + 1 \in 1 .. Len(Append(t, x)) /\ Append(t, x)[Len(t) + 1] = x
        /\ \A j \in 1 .. Len(t) : Append(t, x)[j] = t[j]
    <3> HIDE DEF t, x
    <3> QED BY <1>3
  <2>3. CASE i.op = "insert"
    <3>1. x = <<s, k>>
      BY <2>3, <1>4 DEF NameInserted
    <3>2. x \in Names
      BY <3>1, <1>2 DEF Names, Fields
    <3> HIDE DEF e, t, x, k
    <3> QED BY <2>1, <2>2, <2>3, <3>1, <3>2 DEF Brings
  <2>4. CASE i.op = "ref_insert" /\ ~i.dynamic
    <3>1. x = StaticName(i.index) /\ i.index < StaticLen
      BY <2>4, <1>4 DEF NameInserted, Resolvable
    <3>2. x \in Names
      BY <3>1, <1>5, H3Assumption DEF Names
    <3> HIDE DEF e, t, x, k
    <3> QED BY <2>1, <2>2, <2>4, <3>1, <3>2 DEF Brings
  <2>5. CASE i.op # "insert" /\ ~(i.op = "ref_insert" /\ ~i.dynamic)
    <3>1. x = t[Len(t) - i.index] /\ i.index + 1 < k
      BY <2>5, <1>4 DEF NameInserted, Resolvable
    <3>2. Len(t) - i.index \in 1 .. Len(t) /\ i.index + 1 < Len(t) + 1
          /\ Len(t) + 1 - 1 - i.index = Len(t) - i.index
      <4>1. i.index < Len(t) /\ i.index \in Nat /\ Len(t) \in Nat
        <5>1. i.index < stream[s].inserted
          BY <3>1, <1>2, <1>5
        <5> QED BY <5>1, <1>2, <1>3, <1>5
      <4> HIDE DEF t
      <4> QED BY <4>1
    <3>3. x \in Names
      BY <3>1, <3>2, <1>3
    <3>4. Append(t, x)[Len(t) + 1 - 1 - i.index] = x
      BY <3>1, <3>2, <2>2
    <3> HIDE DEF e, t, x, k
    <3> QED BY <2>1, <2>2, <2>5, <3>2, <3>3, <3>4 DEF Brings
  <2> QED BY <2>3, <2>4, <2>5
<1>9. /\ Only(s)
      /\ stream'[s].st = stream[s].st /\ stream'[s].conn = stream[s].conn
      /\ stream'[s].w = stream[s].w /\ stream'[s].fields = stream[s].fields
      /\ stream'[s].base = stream[s].base /\ stream'[s].replied = stream[s].replied
      /\ stream'[s].inserted = k
  <2> HIDE DEF k
  <2> QED BY <1>1, <1>2, InsertStream DEF Types
<1> QED BY <1>1, <1>2, <1>4, <1>6, <1>7, <1>8, <1>9

LEMMA InsertKeeps ==
  ASSUME Types, NEW w \in Workers, NEW s \in Streams, entry_table(w, s), UNCHANGED daemonVars
  PROVE  Types'
<1> DEFINE c == stream[s].conn
           x == NameInserted(s, stream[s].inserted + 1)
<1>1. /\ c \in Conns /\ x \in Names /\ table' = [table EXCEPT ![s] = Append(@, x)]
      /\ stream[s].inserted + 1 <= Len(plan[s].table)
      /\ Only(s)
      /\ stream'[s].st = stream[s].st /\ stream'[s].conn = stream[s].conn
      /\ stream'[s].w = stream[s].w /\ stream'[s].base = stream[s].base
      /\ stream'[s].replied = stream[s].replied
      /\ stream'[s].inserted = stream[s].inserted + 1
  BY InsertEffect
<1>2. \/ table_events' = table_events
      \/ Len(table_events) < MaxRing /\ \E e \in TableEvent : table_events' = Append(table_events, e)
  BY InsertEffect
<1>3. UNCHANGED <<plan, st_map, pid_conn_map, events, resp_events>>
  BY DEF entry_table, h3Maps
<1> HIDE DEF c, x
<1>4. /\ table' \in [Streams -> Seq(Names)] /\ Len(table'[s]) = Len(table[s]) + 1
      /\ \A r \in Streams : Len(table[r]) \in Nat /\ Len(table[r]) <= Len(table'[r])
  <2>1. \A r \in Streams : table[r] \in Seq(Names) /\ Len(table[r]) \in Nat
    BY DEF Types, NginxType
  <2>2. Append(table[s], x) \in Seq(Names) /\ Len(Append(table[s], x)) = Len(table[s]) + 1
    BY <1>1, <2>1
  <2>3. table'[s] = Append(table[s], x) /\ \A r \in Streams \ {s} : table'[r] = table[r]
    BY <1>1 DEF Types, NginxType
  <2> QED BY <1>1, <2>1, <2>2, <2>3 DEF Types, NginxType
<1>5. NginxType'
  BY <1>1, <1>3, <1>4 DEF Types, NginxType, Only
<1>6. \A t \in Streams \ {s} : stream'[t] = stream[t]
  BY <1>1 DEF Only
<1>7. \A t \in Streams : stream[t].conn # None => stream[t].conn \in Conns
  BY PlanType DEF Types, StreamRecord
<1>8. stream[s].inserted \in Nat /\ stream[s].replied \in Nat
      /\ \A t \in Streams : stream[t].inserted \in Nat /\ stream[t].base \in Nat
  BY PlanType DEF Types, StreamRecord
<1>9. OwnObject'
  <2>1. \A r, t \in Streams :
          stream'[r].conn # None /\ stream'[r].conn = stream'[t].conn /\ stream'[r].w = stream'[t].w
            => r = t
    BY <1>1, <1>6 DEF Types, OwnObject
  <2>2. \A y \in Workers : st_map'[y] # None =>
          \E t \in Streams : stream'[t].conn = st_map'[y] /\ stream'[t].w = y /\ stream'[t].st = "headers"
    BY <1>1, <1>3, <1>6 DEF Types, OwnObject
  <2>3. stream[s].st # "new"
    BY <1>1, H3Assumption DEF c, Types, OwnObject
  <2>4. \A t \in Streams :
          /\ stream'[t].st = "new" => stream'[t].conn = None /\ stream'[t].inserted = 0
          /\ stream'[t].st \in {"new", "headers"} => stream'[t].replied = 0
          /\ stream'[t].st = "reply" => stream'[t].conn # None
          /\ stream'[t].inserted <= Len(plan'[t].table)
    BY <1>1, <1>3, <1>6, <2>3 DEF Types, OwnObject
  <2>5. \A t \in Streams : stream'[t].conn # None =>
          /\ stream'[t].w # None /\ pid_conn_map'[stream'[t].w] # None
          /\ stream'[t].inserted <= Len(table'[t])
    <3> SUFFICES ASSUME NEW t \in Streams, stream'[t].conn # None
                 PROVE  /\ stream'[t].w # None /\ pid_conn_map'[stream'[t].w] # None
                        /\ stream'[t].inserted <= Len(table'[t])
      OBVIOUS
    <3>1. stream'[t].conn = stream[t].conn /\ stream'[t].w = stream[t].w
      BY <1>1, <1>6
    <3>2. stream[t].inserted <= Len(table[t])
      BY <3>1 DEF Types, OwnObject
    <3>3. t = s => stream'[t].inserted <= Len(table'[t])
      BY <3>1, <3>2, <1>1, <1>4, <1>8 DEF c
    <3>4. t # s => stream'[t].inserted <= Len(table'[t])
      <4> HAVE t # s
      <4>1. stream'[t] = stream[t] /\ stream[t].conn \in Conns /\ stream[t].inserted \in Nat
        BY <3>1, <1>6, <1>7, <1>8
      <4> QED BY <4>1, <3>2, <1>4
    <3>5. stream'[t].inserted <= Len(table'[t])
      BY <3>3, <3>4
    <3> QED BY <3>1, <3>5, <1>3 DEF Types, OwnObject
  <2> QED BY <2>1, <2>2, <2>4, <2>5 DEF OwnObject
<1>10. BaseReached'
  <2> SUFFICES ASSUME NEW t \in Streams, stream'[t].conn # None, stream'[t].replied > 0
               PROVE  /\ stream'[t].base <= Len(table'[t])
                      /\ \A i \in 1 .. Len(plan'[t].reply) :
                           plan'[t].reply[i].dynamic => plan'[t].reply[i].index < stream'[t].base
    BY DEF BaseReached
  <2>1. stream'[t].conn = stream[t].conn /\ stream'[t].base = stream[t].base
        /\ stream'[t].replied = stream[t].replied
    BY <1>1, <1>6
  <2>2. /\ stream[t].base <= Len(table[t])
        /\ \A i \in 1 .. Len(plan[t].reply) :
             plan[t].reply[i].dynamic => plan[t].reply[i].index < stream[t].base
    BY <2>1 DEF Types, BaseReached
  <2>3. /\ stream[t].base \in Nat /\ Len(table[t]) \in Nat /\ Len(table'[t]) \in Nat
        /\ Len(table[t]) <= Len(table'[t])
    BY <1>4, <1>8
  <2>4. stream[t].base <= Len(table'[t])
    BY <2>2, <2>3
  <2> QED BY <2>1, <2>2, <2>4, <1>3
<1>11. RingType'
  <2>1. table_events' \in Seq(TableEvent) /\ Len(table_events') <= MaxRing
    BY <1>2, AppendFits DEF Types, RingType
  <2> QED BY <2>1, <1>3 DEF Types, RingType
<1>12. DaemonType'
  BY DEF Types, DaemonType, daemonVars
<1> QED BY <1>5, <1>9, <1>10, <1>11, <1>12 DEF Types

-----------------------------------------------------------------------------
(* The steps of the daemon keep the types.                                  *)

LEMMA TailFits ==
  ASSUME NEW S, NEW ring \in Seq(S), Len(ring) <= MaxRing, ring # <<>>
  PROVE  /\ Head(ring) \in S /\ Tail(ring) \in Seq(S) /\ Len(Tail(ring)) <= MaxRing
         /\ Len(ring) \in Nat \ {0} /\ Len(Tail(ring)) = Len(ring) - 1 /\ Head(ring) = ring[1]
         /\ \A i \in 1 .. Len(Tail(ring)) : Tail(ring)[i] = ring[i + 1]
BY H3Assumption

LEMMA WithFieldType ==
  ASSUME NEW pr \in Request \cup {None}, pr # None => pr.fields # <<>>, NEW e \in FieldEvent
  PROVE  /\ WithField(pr, e) \in Request \cup {None}
         /\ WithField(pr, e) # None => WithField(pr, e).fields # <<>>
<1>1. CASE e.field = None
  BY <1>1 DEF WithField
<1>2. CASE e.field # None /\ pr = None
  <2>1. e.field \in Fields /\ e.ip \in Ips
    BY <1>2 DEF FieldEvent
  <2>2. WithField(pr, e) = [ip |-> e.ip, fields |-> <<e.field>>]
    BY <1>2 DEF WithField
  <2>3. <<e.field>> \in Seq(Fields) /\ <<e.field>> # <<>>
    BY <2>1
  <2> QED BY <2>1, <2>2, <2>3 DEF Request
<1>3. CASE e.field # None /\ pr # None
  <2>1. e.field \in Fields /\ pr \in Request
    BY <1>3 DEF FieldEvent
  <2>2. WithField(pr, e) = [pr EXCEPT !.fields = Append(@, e.field)]
    BY <1>3 DEF WithField
  <2>3. pr.fields \in Seq(Fields)
    BY <2>1 DEF Request
  <2>4. Append(pr.fields, e.field) \in Seq(Fields) /\ Append(pr.fields, e.field) # <<>>
    BY <2>1, <2>3
  <2> QED BY <2>1, <2>2, <2>4 DEF Request
<1> QED BY <1>1, <1>2, <1>3

LEMMA ReadReqKeeps ==
  ASSUME Types, ReadReq
  PROVE  Types'
<1>1. PICK e \in FieldEvent :
        e = Head(events) /\ events' \in Seq(FieldEvent) /\ Len(events') <= MaxRing
  BY TailFits DEF Types, RingType, ReadReq
<1>2. PICK c \in Conns : c = e.conn
  BY DEF FieldEvent
<1>3. PICK pr \in Request \cup {None} : pr = WithField(pendingReq[c], e) /\ (pr # None => pr.fields # <<>>)
  BY WithFieldType DEF Types, DaemonType
<1>4. \/ /\ pendingReq' = [pendingReq EXCEPT ![c] = None]
         /\ requests' = IF pr = None THEN requests ELSE Append(requests, pr)
      \/ pendingReq' = [pendingReq EXCEPT ![c] = pr] /\ requests' = requests
  BY <1>1, <1>2, <1>3 DEF ReadReq, emitRequest
<1>5. UNCHANGED <<plan, stream, table, st_map, pid_conn_map, resp_events, table_events,
                  pendingResp, dynamicTables, rev, idle, toEmit, responses>>
  BY DEF ReadReq, h3Maps
<1>6. requests' \in Seq(Request)
  <2>1. requests \in Seq(Request)
    BY DEF Types, DaemonType
  <2>2. pr # None => Append(requests, pr) \in Seq(Request)
    BY <2>1
  <2> QED BY <2>1, <2>2, <1>4
<1>7. /\ pendingReq' \in [Conns -> Request \cup {None}]
      /\ \A d \in Conns : pendingReq'[d] # None => pendingReq'[d].fields # <<>>
  BY <1>3, <1>4 DEF Types, DaemonType
<1>8. DaemonType'
  BY <1>5, <1>6, <1>7 DEF Types, DaemonType
<1>9. NginxType' /\ RingType' /\ OwnObject' /\ BaseReached'
  BY <1>1, <1>5 DEF Types, NginxType, RingType, OwnObject, BaseReached
<1> QED BY <1>8, <1>9 DEF Types

LEMMA StaticType ==
  ASSUME NEW i \in Nat
  PROVE  /\ Static(i) \in Names \cup {Unresolved}
         /\ Unresolved \notin Meanings /\ Names \subseteq Meanings
<1>1. Static(i) \in Names \cup {Unresolved}
  BY H3Assumption DEF Static, Names
<1>2. Unresolved \notin Fields /\ \A j \in Nat : StaticName(j) # Unresolved
  BY DEF Unresolved, Fields, StaticName
<1>3. Names \subseteq Meanings
  BY H3Assumption DEF Names, Meanings, StaticName
<1> QED BY <1>1, <1>2, <1>3 DEF Meanings, StaticName

LEMMA ReadTableKeeps ==
  ASSUME Types, ReadTable
  PROVE  Types'
<1> DEFINE e == Head(table_events)
           c == e.conn
           x == NameToInsert(e)
<1>1. e \in TableEvent /\ table_events' \in Seq(TableEvent) /\ Len(table_events') <= MaxRing
  BY TailFits DEF Types, RingType, ReadTable
<1>2. /\ c \in Conns /\ e.op \in {"insert", "ref_insert", "duplicate"} /\ e.index \in Nat
      /\ e.name \in Fields
  BY <1>1 DEF TableEvent
<1>3. dynamicTables[c] \in Seq(Names)
  BY <1>2 DEF Types, DaemonType
<1>4. x \in Names \cup {Unresolved}
  <2>1. \A d \in BOOLEAN : resolveLive(c, d, e.index) \in Names \cup {Unresolved}
    <3>1. e.index < Len(dynamicTables[c]) => Len(dynamicTables[c]) - e.index \in 1 .. Len(dynamicTables[c])
      BY <1>2, <1>3
    <3> QED BY <3>1, <1>2, <1>3, StaticType DEF resolveLive
  <2>2. e.dynamic \in BOOLEAN
    BY <1>1 DEF TableEvent
  <2>3. CASE e.op = "insert"
    BY <2>3, <1>2 DEF NameToInsert, Names
  <2>4. CASE e.op = "ref_insert"
    BY <2>4, <2>1, <2>2 DEF NameToInsert
  <2>5. CASE e.op = "duplicate"
    BY <2>5, <2>1 DEF NameToInsert
  <2> QED BY <2>3, <2>4, <2>5, <1>2
<1>5. dynamicTables' = IF x = Unresolved THEN dynamicTables
                       ELSE [dynamicTables EXCEPT ![c] = Append(@, x)]
  BY DEF ReadTable
<1>6. UNCHANGED <<plan, stream, table, st_map, pid_conn_map, events, resp_events, pendingReq,
                  pendingResp, rev, idle, toEmit, requests, responses>>
  BY DEF ReadTable, h3Maps
<1> HIDE DEF e, c, x
<1>7. dynamicTables' \in [Conns -> Seq(Names)]
  BY <1>2, <1>3, <1>4, <1>5 DEF Types, DaemonType
<1>8. DaemonType'
  BY <1>6, <1>7 DEF Types, DaemonType
<1>9. NginxType' /\ RingType' /\ OwnObject' /\ BaseReached'
  BY <1>1, <1>6 DEF Types, NginxType, RingType, OwnObject, BaseReached
<1> QED BY <1>8, <1>9 DEF Types

LEMMA ReadRespKeeps ==
  ASSUME Types, ReadResp
  PROVE  Types'
<1>1. PICK e \in RespEvent :
        e = Head(resp_events) /\ resp_events' \in Seq(RespEvent) /\ Len(resp_events') <= MaxRing
  BY TailFits DEF Types, RingType, ReadResp
<1>2. PICK c \in Conns : c = e.conn
  BY DEF RespEvent
<1>3. PICK base \in Nat : base = currentBase(c)
  <2>1. pendingResp[c] # None => pendingResp[c].base \in Nat
    BY DEF Types, DaemonType, Pending
  <2>2. Len(dynamicTables[c]) \in Nat
    BY DEF Types, DaemonType
  <2> QED BY <2>1, <2>2 DEF currentBase
<1>4. PICK x \in Meanings \cup {Unresolved} : x = resolveIndexed(c, e.dynamic, e.index, base)
  <2>1. dynamicTables[c] \in Seq(Names) /\ e.index \in Nat
    BY DEF Types, DaemonType, RespEvent
  <2>2. resolveIndexed(c, e.dynamic, e.index, base) \in Names \cup {Unresolved}
    BY <2>1, StaticType DEF resolveIndexed
  <2> QED BY <2>1, <2>2, StaticType
<1>5. /\ rev' = [conn |-> c, ip |-> e.ip, field |-> [name |-> x, means |-> e.means, value |-> e.value]]
      /\ rev = None
  BY <1>1, <1>2, <1>3, <1>4 DEF ReadResp
<1>6. e.ip \in Ips /\ e.means \in Meanings /\ e.value \in Fields
  BY DEF RespEvent
<1>7. rev' \in Reading
  <2>1. PICK f \in RespField : f = [name |-> x, means |-> e.means, value |-> e.value]
    BY <1>6 DEF RespField
  <2> QED BY <2>1, <1>5, <1>6 DEF Reading
<1>8. UNCHANGED <<plan, stream, table, st_map, pid_conn_map, events, table_events, pendingReq,
                  pendingResp, dynamicTables, idle, toEmit, requests, responses>>
  BY DEF ReadResp, h3Maps
<1>9. DaemonType'
  BY <1>7, <1>8 DEF Types, DaemonType
<1>10. NginxType' /\ RingType' /\ OwnObject' /\ BaseReached'
  BY <1>1, <1>8 DEF Types, NginxType, RingType, OwnObject, BaseReached
<1> QED BY <1>9, <1>10 DEF Types

LEMMA AppendRespKeeps ==
  ASSUME Types, appendRespField
  PROVE  Types'
<1>1. rev # None /\ rev \in Reading
  BY DEF Types, DaemonType, appendRespField
<1>2. PICK c \in Conns, f \in RespField, ip \in Ips : c = rev.conn /\ f = rev.field /\ ip = rev.ip
  BY <1>1 DEF Reading
<1>3. UNCHANGED <<plan, stream, table, st_map, pid_conn_map, events, resp_events, table_events,
                  pendingReq, dynamicTables, toEmit, requests, responses>>
  BY DEF appendRespField, probeVars, h3Maps
<1>4. PICK pr \in Pending :
        pr = IF pendingResp[c] = None
             THEN [ip |-> ip, base |-> Len(dynamicTables[c]), fields |-> <<>>] ELSE pendingResp[c]
  <2>1. Len(dynamicTables[c]) \in Nat /\ <<>> \in Seq(RespField)
    BY DEF Types, DaemonType
  <2>2. [ip |-> ip, base |-> Len(dynamicTables[c]), fields |-> <<>>] \in Pending
    BY <2>1 DEF Pending
  <2>3. pendingResp[c] \in Pending \cup {None}
    BY DEF Types, DaemonType
  <2> QED BY <2>2, <2>3
<1>5. PICK fs \in Seq(RespField) : fs = Append(pr.fields, f) /\ fs # <<>>
  <2>1. pr.fields \in Seq(RespField)
    BY DEF Pending
  <2> QED BY <2>1, AppendNotEmpty
<1>6. [pr EXCEPT !.fields = fs] \in Pending /\ [pr EXCEPT !.fields = fs].fields = fs
  BY DEF Pending
<1>7. PICK p \in Pending : p = [pr EXCEPT !.fields = fs] /\ p.fields # <<>>
  BY <1>5, <1>6
<1>8. pendingResp' = [pendingResp EXCEPT ![c] = p] /\ idle' = idle \ {c} /\ rev' = None
  BY <1>2, <1>4, <1>5, <1>7 DEF appendRespField
<1>9. /\ pendingResp' \in [Conns -> Pending \cup {None}]
      /\ \A d \in Conns : pendingResp'[d] # None => pendingResp'[d].fields # <<>>
      /\ idle' \subseteq {d \in Conns : pendingResp'[d] # None}
  BY <1>7, <1>8 DEF Types, DaemonType
<1>10. DaemonType'
  BY <1>3, <1>8, <1>9 DEF Types, DaemonType
<1>11. NginxType' /\ RingType' /\ OwnObject' /\ BaseReached'
  BY <1>3 DEF Types, NginxType, RingType, OwnObject, BaseReached
<1> QED BY <1>10, <1>11 DEF Types

LEMMA FlushKeeps ==
  ASSUME Types, FlushTake \/ (\E pr \in toEmit : FlushEmit(pr)) \/ \E c \in Conns : Elapse(c)
  PROVE  Types'
<1>1. UNCHANGED <<plan, stream, table, st_map, pid_conn_map, events, resp_events, table_events,
                  pendingReq, dynamicTables, rev, requests>>
  BY DEF FlushTake, FlushEmit, Elapse, probeVars, h3Maps
<1>2. NginxType' /\ RingType' /\ OwnObject' /\ BaseReached'
  BY <1>1 DEF Types, NginxType, RingType, OwnObject, BaseReached
<1>3. ASSUME FlushTake PROVE DaemonType'
  BY <1>1, <1>3 DEF Types, DaemonType, FlushTake
<1>4. ASSUME NEW pr \in toEmit, FlushEmit(pr) PROVE DaemonType'
  <2>1. pr \in Pending /\ responses \in Seq(Response)
    BY DEF Types, DaemonType
  <2>2. [ip |-> pr.ip, fields |-> pr.fields] \in Response
    BY <2>1 DEF Pending, Response
  <2>3. responses' \in Seq(Response)
    BY <2>1, <2>2, <1>4 DEF FlushEmit
  <2> QED BY <2>3, <1>1, <1>4 DEF Types, DaemonType, FlushEmit
<1>5. ASSUME NEW c \in Conns, Elapse(c) PROVE DaemonType'
  BY <1>1, <1>5 DEF Types, DaemonType, Elapse
<1> QED BY <1>2, <1>3, <1>4, <1>5 DEF Types

LEMMA InitTypes == Init => Types
<1> SUFFICES ASSUME Init PROVE Types
  OBVIOUS
<1>1. NginxType /\ OwnObject
  <2>1. stream = [s \in Streams |-> NewStream] /\ NewStream \in StreamRecord
    BY DEF Init, InitProbes, NewStream, StreamRecord
  <2>2. \A s \in Streams : stream[s].conn = None /\ stream[s].inserted = 0 /\ stream[s].replied = 0
                           /\ stream[s].st = "new" /\ Len(plan[s].table) \in Nat
    BY <2>1, H3Assumption DEF NewStream, Init, InitProbes
  <2>3. NginxType
    BY <2>1 DEF NginxType, Init, InitProbes
  <2> QED BY <2>2, <2>3 DEF OwnObject, Init, InitProbes
<1>2. BaseReached
  BY DEF Init, InitProbes, NewStream, BaseReached
<1>3. RingType
  BY H3Assumption DEF Init, InitProbes, RingType
<1>4. DaemonType
  BY DEF Init, DaemonType
<1> QED BY <1>1, <1>2, <1>3, <1>4 DEF Types

\* A step of nginx is one of the probed calls, or a stream that ends.
LEMMA NginxSteps ==
  ASSUME NEW w \in Workers, Nginx(w)
  PROVE  /\ UNCHANGED daemonVars
         /\ \/ \E s \in Streams, c \in Conns : entry_parse_headers(w, s, c)
            \/ ret_parse_headers_again(w)
            \/ ret_parse_headers_error(w)
            \/ \E rc \in {"ok", "done"} : ret_parse_headers(w, rc)
            \/ \E s \in Streams : \/ entry_encode_field_lri(w, s)
                                  \/ entry_table(w, s)
                                  \/ CloseStream(w, s)
BY Zenon DEF Nginx, Parse, Enter, Return, Encode, TableOp, Close

LEMMA SharedGrows ==
  ASSUME NEW w \in Workers, Nginx(w)
  PROVE  shared \subseteq shared'
<1>1. ASSUME NEW s \in Streams, NEW c \in Conns, Enter(w, s, c) PROVE shared \subseteq shared'
  BY <1>1 DEF Enter
<1> QED BY <1>1 DEF Nginx, Parse, Return, Encode, TableOp, Close

LEMMA TypesStep == Types /\ [Next]_vars => Types'
<1> SUFFICES ASSUME Types, [Next]_vars PROVE Types'
  OBVIOUS
<1>1. ASSUME NEW w \in Workers, Nginx(w) PROVE Types'
  BY <1>1, NginxSteps, EntryKeeps, AgainKeeps, ErrorKeeps, ReturnKeeps, EncodeKeeps, InsertKeeps,
     CloseKeeps, Zenon
<1>2. CASE UNCHANGED vars
  BY <1>2 DEF vars, probeVars, h3Maps, daemonVars, Types, NginxType, RingType, DaemonType,
              OwnObject, BaseReached
<1> QED BY <1>1, <1>2, ReadReqKeeps, ReadTableKeeps, ReadRespKeeps, AppendRespKeeps, FlushKeeps
        DEF Next

\* Streams that have an object at the same address have met.
Met ==
  \A s, t \in Streams :
    s # t /\ stream[s].conn # None /\ stream[s].conn = stream[t].conn => s \in shared

\* No stream gets an object.
LEMMA MetKept ==
  ASSUME Met, shared \subseteq shared',
         \A s \in Streams : stream'[s].conn = stream[s].conn \/ stream'[s].conn = None
  PROVE  Met'
BY DEF Met

LEMMA EnterMeets ==
  ASSUME Types, Met, NEW w \in Workers, NEW s \in Streams, NEW c \in Conns, Enter(w, s, c)
  PROVE  Met'
<1>1. /\ stream'[s].conn = c /\ \A r \in Streams \ {s} : stream'[r] = stream[r]
      /\ c # None
  BY EntryStream, H3Assumption DEF Enter, Types, Only
<1>2. shared' = IF At(c) \subseteq {s} THEN shared ELSE shared \cup At(c) \cup {s}
  BY DEF Enter
<1> SUFFICES ASSUME NEW r \in Streams, NEW t \in Streams, r # t, stream'[r].conn # None,
                    stream'[r].conn = stream'[t].conn
             PROVE  r \in shared'
  BY DEF Met
<1>3. CASE r # s /\ t # s
  <2>1. r \in shared
    BY <1>1, <1>3 DEF Met
  <2> QED BY <2>1, <1>2
<1>4. CASE r = s
  <2>1. t \in At(c) /\ t # s
    BY <1>1, <1>4 DEF At
  <2> QED BY <2>1, <1>2, <1>4
<1>5. CASE t = s
  <2>1. r \in At(c) /\ r # s
    BY <1>1, <1>5 DEF At
  <2> QED BY <2>1, <1>2
<1> QED BY <1>3, <1>4, <1>5

LEMMA NginxMeets ==
  ASSUME Types, Met, NEW w \in Workers, Nginx(w)
  PROVE  Met'
<1>1. ASSUME NEW s \in Streams, NEW c \in Conns, Enter(w, s, c) PROVE Met'
  BY <1>1, EnterMeets
<1>2. ASSUME Return(w) PROVE Met'
  <2>1. shared' = shared
    BY <1>2 DEF Return
  <2>2. ASSUME ret_parse_headers_again(w) PROVE Met'
    BY <2>1, <2>2, MetKept DEF ret_parse_headers_again
  <2>3. ASSUME ret_parse_headers_error(w) PROVE Met'
    <3>1. PICK s \in Streams : stream' = Ended(s)
      BY <2>3, ParsedIsOwn DEF ret_parse_headers_error, Types
    <3>2. Only(s) /\ stream'[s].conn = None
      BY <3>1, EndedStream DEF Types
    <3> QED BY <3>2, <2>1, MetKept DEF Only
  <2>4. ASSUME NEW rc \in {"ok", "done"}, ret_parse_headers(w, rc) PROVE Met'
    <3>1. PICK s \in Streams : s = Parsed(w)
      BY <2>4, ReturnEffect
    <3>2. Only(s) /\ stream'[s].conn = stream[s].conn
      BY <3>1, <2>4, ReturnEffect
    <3> QED BY <3>2, <2>1, MetKept DEF Only
  <2> QED BY <2>2, <2>3, <2>4, <1>2 DEF Return
<1>3. ASSUME NEW s \in Streams, Encode(w, s) PROVE Met'
  <2>1. Only(s) /\ stream'[s].conn = stream[s].conn /\ shared' = shared
    BY <1>3, EncodeEffect DEF Encode
  <2> QED BY <2>1, MetKept DEF Only
<1>4. ASSUME NEW s \in Streams, TableOp(w, s) PROVE Met'
  <2>1. Only(s) /\ stream'[s].conn = stream[s].conn /\ shared' = shared
    BY <1>4, InsertEffect DEF TableOp
  <2> QED BY <2>1, MetKept DEF Only
<1>5. ASSUME NEW s \in Streams, Close(w, s) PROVE Met'
  <2>1. Only(s) /\ stream'[s].conn = None /\ shared' = shared
    BY <1>5, EndedStream DEF Close, CloseStream, Types
  <2> QED BY <2>1, MetKept DEF Only
<1> QED BY <1>1, <1>2, <1>3, <1>4, <1>5 DEF Nginx, Parse

LEMMA MetStep == Types /\ Met /\ [Next]_vars => Met'
<1> SUFFICES ASSUME Types, Met, [Next]_vars PROVE Met'
  OBVIOUS
<1>1. CASE UNCHANGED <<stream, shared>>
  BY <1>1, MetKept
<1>2. ASSUME NEW w \in Workers, Nginx(w) PROVE Met'
  BY <1>2, NginxMeets
<1>3. ASSUME ~ \E w \in Workers : Nginx(w) PROVE UNCHANGED <<stream, shared>>
  BY <1>3 DEF Next, vars, probeVars, ReadReq, ReadTable, ReadResp, appendRespField, FlushTake,
              FlushEmit, Elapse
<1> QED BY <1>1, <1>2, <1>3

LEMMA InitMet == Init => Met
BY DEF Init, InitProbes, NewStream, Met

LEMMA TypesAlways == Spec => []Types
BY InitTypes, TypesStep, PTL DEF Spec

(* The variables of both sides keep their types, a ring buffer never holds   *)
(* more than it has room for, nothing empty is pending, and a table holds    *)
(* names only.                                                               *)
THEOREM TypeCorrect == Spec => []TypeOK
<1>1. Types => TypeOK
  BY DEF Types, NginxType, RingType, DaemonType, StreamRecord, TypeOK
<1> QED BY <1>1, TypesAlways, PTL

LEMMA BringsAnother ==
  ASSUME NEW e, NEW t, NEW p, Brings(e, t, p),
         e.op # "insert", ~(e.op = "ref_insert" /\ ~e.dynamic)
  PROVE  e.index + 1 < p /\ t[p] = t[p - 1 - e.index]
BY DEF Brings

LEMMA BringsMore ==
  ASSUME NEW t \in Seq(Names), NEW x \in Names, NEW e \in TableEvent, NEW p, Brings(e, t, p)
  PROVE  Brings(e, Append(t, x), p)
<1>1. p \in 1 .. Len(t) /\ e.index \in Nat
  BY DEF Brings, TableEvent
<1>2. /\ Len(Append(t, x)) = Len(t) + 1 /\ Len(t) \in Nat
      /\ \A j \in 1 .. Len(t) : Append(t, x)[j] = t[j]
  OBVIOUS
<1>3. e.index + 1 < p => p - 1 - e.index \in 1 .. Len(t)
  BY <1>1, <1>2
<1> QED BY <1>1, <1>2, <1>3 DEF Brings

-----------------------------------------------------------------------------
(* The requests. The tip of an object is the last field that is pending for *)
(* it: now, or once a number of the events have been read. Every event goes *)
(* on where the one before it of the same object has left off, unless a     *)
(* stream is Mixable or has met another worker's at its address.             *)

PTip(c) ==
  IF pendingReq[c] = None THEN None ELSE pendingReq[c].fields[Len(pendingReq[c].fields)]
ETip(e) == IF e.ret = "done" THEN None ELSE e.field
Tip(c, i) == IF i = 0 THEN PTip(c) ELSE ETip(events[i])

\* Event i is the last of object c before event j; 0 when there is none.
Prev(c, i, j) ==
  /\ i \in 0 .. j - 1
  /\ i = 0 \/ events[i].conn = c
  /\ \A k \in i + 1 .. j - 1 : events[k].conn # c

Follows(t, e) ==
  /\ e.field # None =>
       \/ e.field[1] \in Mixable
       \/ e.field[2] = 1 /\ (t = None \/ t[1] \in Mixable)
       \/ e.field[2] > 1 /\ t = <<e.field[1], e.field[2] - 1>>
  /\ e.field = None => \/ t = None \/ t[1] \in Mixable \/ t[2] = plan[t[1]].request

Parsing(s, c) == stream[s].conn = c /\ stream[s].st = "headers"
Current(c, t) ==
  /\ t # None => \/ t[1] \in Mixable
                 \/ Parsing(t[1], c) /\ stream[t[1]].fields = t[2]
  /\ \A s \in Streams \ Mixable :
       Parsing(s, c) /\ stream[s].fields > 0 => t = <<s, stream[s].fields>>

Chain ==
  /\ \A j \in 1 .. Len(events) : \A i \in 0 .. j - 1 :
       Prev(events[j].conn, i, j) => Follows(Tip(events[j].conn, i), events[j])
  /\ \A c \in Conns : \A i \in 0 .. Len(events) :
       Prev(c, i, Len(events) + 1) => Current(c, Tip(c, i))
  /\ \A j \in 1 .. Len(events) :
       LET e == events[j] IN
       /\ e.field # None => e.ip = Addr[e.field[1]]
       /\ e.ret = "ok" => e.field # None
       /\ e.ret = "done" /\ e.field # None => e.field[2] = plan[e.field[1]].request
  /\ \A s \in Streams : /\ stream[s].fields <= plan[s].request
                        /\ stream[s].st = "new" => stream[s].fields = 0

\* Without fields of a stream that is broken or has met another, what is pending is
\* the beginning of a request.
BeginsAs(r, s) ==
  r.ip = Addr[s] /\ \A k \in 1 .. Len(r.fields) : r.fields[k] = <<s, k>>
Sound(r) == RequestStreams(r) \cap Mixable = {} => \E s \in Streams : BeginsAs(r, s)
Pieces ==
  /\ \A c \in Conns : pendingReq[c] # None => Sound(pendingReq[c])
  /\ \A i \in 1 .. Len(requests) :
       RequestStreams(requests[i]) \cap Mixable = {}
         => \E s \in Streams : requests[i] = WholeRequest(s)

-----------------------------------------------------------------------------
(* No stream is in two requests, but those that have met: its fields come   *)
(* under one object, and none after the event with which its headers are    *)
(* over.                                                                    *)

Kept(s, c, j) ==
  \/ pendingReq[c] # None /\ s \in RequestStreams(pendingReq[c])
  \/ \E i \in 1 .. j : /\ events[i].conn = c /\ events[i].field # None
                       /\ events[i].field[1] = s
Reported(s) == \E i \in 1 .. Len(requests) : s \in RequestStreams(requests[i])
Over(s) == stream[s].st \notin {"new", "headers"}

Apart ==
  /\ \A i, j \in 1 .. Len(requests) :
       i # j => RequestStreams(requests[i]) \cap RequestStreams(requests[j]) \subseteq shared
  /\ \A s \in Streams \ shared :
       Reported(s) => Over(s) /\ \A c \in Conns : ~Kept(s, c, Len(events))
  /\ \A s \in Streams, c \in Conns :
       Kept(s, c, Len(events)) =>
         /\ stream[s].st # "new" /\ (stream[s].st = "headers" => stream[s].conn = c)
         /\ \A d \in Conns : Kept(s, d, Len(events)) => d = c
  /\ \A s \in Streams \ shared : \A j \in 1 .. Len(events) :
       events[j].ret = "done" /\ Kept(s, events[j].conn, j) =>
         /\ Over(s)
         /\ \A i \in j + 1 .. Len(events) : events[i].field = None \/ events[i].field[1] # s

-----------------------------------------------------------------------------
(* What the steps of nginx do to the invariant of the requests.             *)

RequestInv == Chain /\ Pieces /\ Apart

LEMMA EventFields ==
  ASSUME Types, NEW i \in 1 .. Len(events)
  PROVE  /\ events[i] \in FieldEvent /\ events[i].conn \in Conns
         /\ ETip(events[i]) \in Fields \cup {None}
<1>1. events[i] \in FieldEvent
  BY DEF Types, RingType
<1> QED BY <1>1 DEF FieldEvent, ETip

LEMMA FieldParts ==
  ASSUME NEW f \in Fields
  PROVE  /\ f[1] \in Streams /\ f[2] \in Nat \ {0} /\ f = <<f[1], f[2]>> /\ f # None
BY NoneAssumption DEF Fields

LEMMA TipType ==
  ASSUME Types, NEW c \in Conns, NEW i \in 0 .. Len(events)
  PROVE  Tip(c, i) \in Fields \cup {None}
<1>1. PTip(c) \in Fields \cup {None}
  <2>1. CASE pendingReq[c] = None
    BY <2>1 DEF PTip
  <2>2. CASE pendingReq[c] # None
    <3>1. pendingReq[c].fields \in Seq(Fields) /\ pendingReq[c].fields # <<>>
      BY <2>2 DEF Types, DaemonType, Request
    <3>2. \A q \in Seq(Fields) : q # <<>> => q[Len(q)] \in Fields
      OBVIOUS
    <3> QED BY <3>1, <3>2, <2>2 DEF PTip
  <2> QED BY <2>1, <2>2
<1>2. CASE i = 0
  BY <1>1, <1>2 DEF Tip
<1>3. CASE i # 0
  <2>1. i \in 1 .. Len(events)
    BY <1>3
  <2> QED BY <2>1, <1>3, EventFields DEF Tip
<1> QED BY <1>2, <1>3

LEMMA PiecesKept ==
  ASSUME Pieces, UNCHANGED <<plan, pendingReq, requests>>, Mixable \subseteq Mixable'
  PROVE  Pieces'
<1>1. \A c \in Conns : pendingReq[c] # None => Sound(pendingReq[c])'
  BY DEF Pieces, Sound, BeginsAs
<1>2. \A s \in Streams : WholeRequest(s)' = WholeRequest(s)
  BY DEF WholeRequest
<1> QED BY <1>1, <1>2 DEF Pieces, Sound, BeginsAs

LEMMA FollowsKept ==
  ASSUME NEW t, NEW e, Follows(t, e), UNCHANGED plan, Mixable \subseteq Mixable'
  PROVE  Follows(t, e)'
BY DEF Follows

LEMMA ChainKept ==
  ASSUME Types, Chain, UNCHANGED <<plan, events, pendingReq>>, Mixable \subseteq Mixable',
         \A c \in Conns, t \in Fields \cup {None} : Current(c, t) => Current(c, t)',
         \A s \in Streams : /\ stream'[s].fields <= plan[s].request
                            /\ stream'[s].st = "new" => stream'[s].fields = 0
  PROVE  Chain'
<1>1. \A c, i : Tip(c, i)' = Tip(c, i)
  BY DEF Tip, PTip
<1>2. \A c, i, j : Prev(c, i, j)' <=> Prev(c, i, j)
  BY DEF Prev
<1>3. \A j \in 1 .. Len(events) : \A i \in 0 .. j - 1 :
        Prev(events[j].conn, i, j) => Follows(Tip(events[j].conn, i), events[j])'
  <2> SUFFICES ASSUME NEW j \in 1 .. Len(events), NEW i \in 0 .. j - 1, Prev(events[j].conn, i, j)
               PROVE  Follows(Tip(events[j].conn, i), events[j])'
    OBVIOUS
  <2>1. PICK e, t : e = events[j] /\ t = Tip(e.conn, i)
    OBVIOUS
  <2>2. Follows(t, e)
    BY <2>1 DEF Chain
  <2>3. e = events'[j] /\ t = Tip(e.conn, i)'
    BY <2>1, <1>1
  <2> QED BY <2>2, <2>3 DEF Follows
<1>4. \A c \in Conns : \A i \in 0 .. Len(events) :
        Prev(c, i, Len(events) + 1) => Current(c, Tip(c, i))'
  BY TipType, <1>1 DEF Chain
<1> QED BY <1>1, <1>2, <1>3, <1>4 DEF Chain

LEMMA ApartKept ==
  ASSUME Apart, UNCHANGED <<events, pendingReq, requests>>, shared \subseteq shared',
         \A s \in Streams :
           /\ Over(s) => stream'[s].st \notin {"new", "headers"}
           /\ stream[s].st # "new" =>
                /\ stream'[s].st # "new"
                /\ stream'[s].st = "headers" => stream[s].st = "headers" /\ stream'[s].conn = stream[s].conn
  PROVE  Apart'
<1>1. \A s, c, j : Kept(s, c, j)' <=> Kept(s, c, j)
  BY DEF Kept, RequestStreams
<1>2. \A s : Reported(s)' <=> Reported(s)
  BY DEF Reported, RequestStreams
<1>3. \A s \in Streams : Over(s) => Over(s)'
  BY DEF Over
<1>4. \A i, j \in 1 .. Len(requests') :
       i # j => RequestStreams(requests'[i]) \cap RequestStreams(requests'[j]) \subseteq shared'
  BY DEF Apart
<1>5. \A s \in Streams \ shared' :
       Reported(s)' => Over(s)' /\ \A c \in Conns : ~Kept(s, c, Len(events))'
  BY <1>1, <1>2, <1>3 DEF Apart
<1>6. \A s \in Streams, c \in Conns :
       Kept(s, c, Len(events))' =>
         /\ stream'[s].st # "new" /\ (stream'[s].st = "headers" => stream'[s].conn = c)
         /\ \A d \in Conns : Kept(s, d, Len(events))' => d = c
  BY <1>1 DEF Apart
<1>7. \A s \in Streams \ shared' : \A j \in 1 .. Len(events) :
       events[j].ret = "done" /\ Kept(s, events[j].conn, j)' =>
         /\ Over(s)'
         /\ \A i \in j + 1 .. Len(events) : events[i].field = None \/ events[i].field[1] # s
  BY <1>1, <1>3 DEF Apart
<1> QED BY <1>4, <1>5, <1>6, <1>7 DEF Apart

LEMMA EntryRequests ==
  ASSUME Types, RequestInv, NEW w \in Workers, NEW s \in Streams, NEW c \in Conns,
         entry_parse_headers(w, s, c), UNCHANGED daemonVars, shared \subseteq shared'
  PROVE  RequestInv'
<1>1. /\ Only(s) /\ SameProgress(s)
      /\ stream'[s].st = "headers" /\ stream'[s].conn = c
  BY EntryStream DEF Types
<1>2. /\ UNCHANGED <<plan, events, pendingReq, requests>> /\ Mixable \subseteq Mixable'
      /\ \/ stream[s].st = "new"
         \/ stream[s].st = "headers" /\ stream[s].conn = c
  BY DEF entry_parse_headers, daemonVars, Mixable
<1>3. \A t \in Streams \ {s} : stream'[t] = stream[t]
  BY <1>1 DEF Only
<1>4. \A r \in Streams : /\ stream[r].fields <= plan[r].request
                         /\ stream[r].st = "new" => stream[r].fields = 0
  BY DEF RequestInv, Chain
<1>5. ASSUME NEW d \in Conns, NEW t \in Fields \cup {None}, Current(d, t)
      PROVE  Current(d, t)'
  <2>1. ASSUME t # None, t[1] \notin Mixable'
        PROVE  (Parsing(t[1], d) /\ stream[t[1]].fields = t[2])'
    <3>1. t[1] \in Streams /\ Parsing(t[1], d) /\ stream[t[1]].fields = t[2]
      BY <1>2, <1>5, <2>1, FieldParts DEF Current
    <3> QED BY <3>1, <1>1, <1>2, <1>3 DEF Parsing, SameProgress
  <2>2. ASSUME NEW r \in Streams \ Mixable', Parsing(r, d)', stream'[r].fields > 0
        PROVE  t = <<r, stream'[r].fields>>
    <3>1. Parsing(r, d) /\ stream'[r].fields = stream[r].fields
      BY <2>2, <1>1, <1>2, <1>3, <1>4 DEF Parsing, SameProgress
    <3>2. r \in Streams \ Mixable
      BY <2>2, <1>2
    <3> QED BY <3>1, <3>2, <2>2, <1>5 DEF Current
  <2> QED BY <2>1, <2>2, <1>2 DEF Current
<1>6. \A r \in Streams : /\ stream'[r].fields <= plan[r].request
                         /\ stream'[r].st = "new" => stream'[r].fields = 0
  BY <1>1, <1>3, <1>4 DEF SameProgress
<1>7. Chain'
  BY <1>2, <1>5, <1>6, ChainKept DEF RequestInv
<1>8. Pieces'
  BY <1>2, PiecesKept DEF RequestInv
<1>9. Apart'
  BY <1>1, <1>2, <1>3, ApartKept DEF RequestInv, Over
<1> QED BY <1>7, <1>8, <1>9 DEF RequestInv

\* A stream that ends in the middle of its headers is broken.
LEMMA EndedRequests ==
  ASSUME Types, RequestInv, NEW s \in Streams, stream' = Ended(s),
         Mixable \subseteq Mixable', shared \subseteq shared',
         stream[s].st = "headers" /\ stream[s].fields > 0 => s \in Mixable',
         UNCHANGED <<plan, events, pendingReq, requests>>
  PROVE  RequestInv'
<1>1. /\ Only(s) /\ SameProgress(s)
      /\ stream'[s].st = "closed" /\ stream'[s].conn = None
  BY EndedStream DEF Types
<1>2. \A t \in Streams \ {s} : stream'[t] = stream[t]
  BY <1>1 DEF Only
<1>3. \A r \in Streams : /\ stream[r].fields <= plan[r].request
                         /\ stream[r].st = "new" => stream[r].fields = 0
  BY DEF RequestInv, Chain
<1>4. ASSUME NEW d \in Conns, NEW t \in Fields \cup {None}, Current(d, t)
      PROVE  Current(d, t)'
  <2>1. ASSUME t # None, t[1] \notin Mixable'
        PROVE  (Parsing(t[1], d) /\ stream[t[1]].fields = t[2])'
    <3>1. /\ t[1] \in Streams /\ Parsing(t[1], d) /\ stream[t[1]].fields = t[2]
          /\ t[2] \in Nat \ {0}
      BY <1>4, <2>1, FieldParts DEF Current
    <3>2. t[1] # s
      BY <3>1, <2>1 DEF Parsing
    <3> QED BY <3>1, <3>2, <1>2 DEF Parsing
  <2>2. ASSUME NEW r \in Streams \ Mixable', Parsing(r, d)', stream'[r].fields > 0
        PROVE  t = <<r, stream'[r].fields>>
    <3>1. r # s
      BY <2>2, <1>1 DEF Parsing
    <3> QED BY <3>1, <2>2, <1>2, <1>4 DEF Current, Parsing
  <2> QED BY <2>1, <2>2 DEF Current
<1>5. \A r \in Streams : /\ stream'[r].fields <= plan[r].request
                         /\ stream'[r].st = "new" => stream'[r].fields = 0
  BY <1>1, <1>2, <1>3 DEF SameProgress
<1>6. Chain'
  BY <1>4, <1>5, ChainKept DEF RequestInv
<1>7. Pieces'
  BY PiecesKept DEF RequestInv
<1>8. Apart'
  BY <1>1, <1>2, ApartKept DEF RequestInv, Over
<1> QED BY <1>6, <1>7, <1>8 DEF RequestInv

\* A step that leaves the fields of requests alone.
LEMMA QuietRequests ==
  ASSUME Types, RequestInv, UNCHANGED <<plan, events, pendingReq, requests>>,
         Mixable \subseteq Mixable', shared \subseteq shared',
         \A r \in Streams : /\ stream'[r].st = stream[r].st /\ stream'[r].conn = stream[r].conn
                            /\ stream'[r].fields = stream[r].fields
  PROVE  RequestInv'
<1>1. ASSUME NEW d \in Conns, NEW t \in Fields \cup {None}, Current(d, t)
      PROVE  Current(d, t)'
  <2>1. t # None => t[1] \in Streams
    BY FieldParts
  <2> QED BY <2>1, <1>1 DEF Current, Parsing
<1>2. Chain'
  <2>1. \A r \in Streams : /\ stream[r].fields <= plan[r].request
                           /\ stream[r].st = "new" => stream[r].fields = 0
    BY DEF RequestInv, Chain
  <2> QED BY <1>1, <2>1, ChainKept DEF RequestInv
<1>3. Pieces'
  BY PiecesKept DEF RequestInv
<1>4. Apart'
  BY ApartKept DEF RequestInv, Over
<1> QED BY <1>2, <1>3, <1>4 DEF RequestInv

\* What becomes of the chain when event e comes after n others.
Appended(n, e) ==
  /\ n \in Nat /\ Len(events') = n + 1 /\ events'[n + 1] = e
  /\ \A i \in 1 .. n : events'[i] = events[i]
  /\ \A c, i : i \in 0 .. n => Tip(c, i)' = Tip(c, i)
  /\ \A c : Tip(c, n + 1)' = ETip(e)
  /\ \A c, i, j : j \in 1 .. n + 1 => (Prev(c, i, j)' <=> Prev(c, i, j))
  /\ \A c, i : Prev(c, i, n + 2)' =>
       IF c = e.conn THEN i = n + 1 ELSE i \in 0 .. n /\ Prev(c, i, n + 1)
  /\ \A t, d, j : j \in 0 .. n => (Kept(t, d, j)' <=> Kept(t, d, j))
  /\ \A t, d : Kept(t, d, n + 1)' <=>
       Kept(t, d, n) \/ (d = e.conn /\ e.field # None /\ e.field[1] = t)

LEMMA AppendKeepsChain ==
  ASSUME Types, NEW e \in FieldEvent, events' = Append(events, e), pendingReq' = pendingReq,
         NEW n, n = Len(events)
  PROVE  Appended(n, e)
<1>1. /\ n \in Nat /\ Len(events') = n + 1 /\ events'[n + 1] = e
      /\ \A i \in 1 .. n : events'[i] = events[i]
  BY DEF Types, RingType
<1>2. \A c, i : i \in 0 .. n => Tip(c, i)' = Tip(c, i)
  BY <1>1 DEF Tip, PTip
<1>3. \A c : Tip(c, n + 1)' = ETip(e)
  BY <1>1 DEF Tip
<1>4. \A c, i, j : j \in 1 .. n + 1 => (Prev(c, i, j)' <=> Prev(c, i, j))
  BY <1>1 DEF Prev
<1>5. ASSUME NEW c, NEW i, Prev(c, i, n + 2)'
      PROVE  IF c = e.conn THEN i = n + 1 ELSE i \in 0 .. n /\ Prev(c, i, n + 1)
  <2>1. /\ i \in 0 .. n + 1
        /\ i = 0 \/ events'[i].conn = c
        /\ \A k \in i + 1 .. n + 1 : events'[k].conn # c
    BY <1>1, <1>5 DEF Prev
  <2>2. CASE c = e.conn
    <3>1. ~(n + 1 \in i + 1 .. n + 1)
      BY <2>1, <2>2, <1>1
    <3> QED BY <3>1, <2>1, <2>2, <1>1
  <2>3. CASE c # e.conn
    <3>1. i \in 0 .. n
      BY <2>1, <2>3, <1>1
    <3> QED BY <3>1, <2>1, <2>3, <1>1 DEF Prev
  <2> QED BY <2>2, <2>3
<1>6. \A t, d, j : j \in 0 .. n => (Kept(t, d, j)' <=> Kept(t, d, j))
  BY <1>1 DEF Kept
<1>7. ASSUME NEW t, NEW d
      PROVE  Kept(t, d, n + 1)' <=> Kept(t, d, n) \/ (d = e.conn /\ e.field # None /\ e.field[1] = t)
  BY <1>1 DEF Kept
<1> QED BY <1>1, <1>2, <1>3, <1>4, <1>5, <1>6, <1>7 DEF Appended

\* A field, or the end of the headers, reaches the ring buffer.
LEMMA SentRequests ==
  ASSUME Types, Met, RequestInv, NEW s \in Streams, NEW c \in Conns, NEW n \in Nat, NEW m \in Nat,
         NEW rc \in {"ok", "done"}, NEW e \in FieldEvent,
         stream[s].st = "headers", stream[s].conn = c, stream[s].fields = n, plan[s].request = m,
         rc = "ok" => n < m, rc = "done" => n + 1 >= m,
         Only(s), stream'[s].st = (IF rc = "done" THEN "reply" ELSE "headers"),
         stream'[s].conn = c, stream'[s].fields = (IF n < m THEN n + 1 ELSE n),
         e.conn = c, e.ret = rc, e.ip = Addr[s], e.field = (IF n < m THEN <<s, n + 1>> ELSE None),
         events' = Append(events, e), UNCHANGED <<plan, pendingReq, requests>>,
         Mixable \subseteq Mixable', shared \subseteq shared'
  PROVE  RequestInv'
<1>0. PICK l : l = Len(events)
  OBVIOUS
<1>a. Appended(l, e)
  BY <1>0, AppendKeepsChain
<1>1. /\ l \in Nat /\ Len(events') = l + 1 /\ events'[l + 1] = e
      /\ \A i \in 1 .. l : events'[i] = events[i]
      /\ \A d, i : i \in 0 .. l => Tip(d, i)' = Tip(d, i)
      /\ \A d : Tip(d, l + 1)' = ETip(e)
      /\ \A d, i, j : j \in 1 .. l + 1 => (Prev(d, i, j)' <=> Prev(d, i, j))
      /\ \A d, i : Prev(d, i, l + 2)' =>
           IF d = e.conn THEN i = l + 1 ELSE i \in 0 .. l /\ Prev(d, i, l + 1)
  BY <1>a DEF Appended
<1>2. \A t \in Streams \ {s} : stream'[t] = stream[t]
  BY DEF Only
<1>3. \A r \in Streams : /\ stream[r].fields <= plan[r].request
                         /\ stream[r].st = "new" => stream[r].fields = 0
  BY DEF RequestInv, Chain
<1>4. c # None /\ n <= m
  BY <1>3, H3Assumption
<1>5. \A r \in Streams \ shared : stream[r].conn = c => r = s
  BY <1>4 DEF Met
<1>b. \A r \in Streams : r \notin Mixable => r \notin shared
  BY DEF Mixable
<1>6. n < m => <<s, n + 1>> \in Fields /\ e.field = <<s, n + 1>> /\ e.field # None
  BY FieldParts DEF Fields
<1>7. \A i \in 0 .. l : Prev(c, i, l + 1) => Current(c, Tip(c, i)) /\ Tip(c, i) \in Fields \cup {None}
  BY <1>0, TipType DEF RequestInv, Chain
<1>8. ASSUME NEW t \in Fields \cup {None}, Current(c, t)
      PROVE  Follows(t, e)
  <2>1. t # None => \/ t[1] \in Mixable
                    \/ t[1] = s /\ t[2] = n /\ t = <<s, n>> /\ n > 0
    <3> HAVE t # None
    <3>1. /\ t[1] \in Streams /\ t[2] \in Nat \ {0} /\ t = <<t[1], t[2]>>
          /\ t[1] \in Mixable \/ (Parsing(t[1], c) /\ stream[t[1]].fields = t[2])
      BY <1>8, FieldParts DEF Current
    <3> QED BY <3>1, <1>5, <1>b DEF Parsing
  <2>2. s \in Mixable \/ n = 0 \/ t = <<s, n>>
    BY <1>8 DEF Current, Parsing
  <2>3. CASE n < m
    <3>1. e.field = <<s, n + 1>> /\ e.field # None /\ e.field[1] = s /\ e.field[2] = n + 1
          /\ n + 1 - 1 = n
      BY <2>3, <1>6
    <3> QED BY <3>1, <2>1, <2>2 DEF Follows
  <2>4. CASE ~(n < m)
    <3>1. e.field = None /\ n = m
      BY <2>4, <1>4
    <3> QED BY <3>1, <2>1 DEF Follows
  <2> QED BY <2>3, <2>4
<1>9. ASSUME NEW j \in 1 .. l + 1, NEW i \in 0 .. j - 1, NEW x, x = events'[j], Prev(x.conn, i, j)'
      PROVE  Follows(Tip(x.conn, i), x)'
  <2>1. Prev(x.conn, i, j) /\ Tip(x.conn, i)' = Tip(x.conn, i)
    BY <1>1, <1>9
  <2>2. PICK t : t = Tip(x.conn, i)
    OBVIOUS
  <2>3. Follows(t, x)
    <3>1. CASE j \in 1 .. l
      <4>1. x = events[j]
        BY <3>1, <1>1, <1>9
      <4> QED BY <4>1, <3>1, <2>1, <2>2, <1>0 DEF RequestInv, Chain
    <3>2. CASE j = l + 1
      BY <3>2, <2>1, <2>2, <1>1, <1>7, <1>8, <1>9
    <3> QED BY <3>1, <3>2, <1>1
  <2>4. t = Tip(x.conn, i)'
    BY <2>1, <2>2
  <2> QED BY <2>3, <2>4 DEF Follows
<1>10. Current(c, ETip(e))'
  <2>1. CASE rc = "ok"
    <3>1. ETip(e) = <<s, n + 1>> /\ stream'[s].fields = n + 1 /\ stream'[s].st = "headers"
      BY <2>1, <1>6 DEF ETip
    <3>2. \A r \in Streams \ Mixable' : Parsing(r, c)' => r = s
      BY <1>2, <1>5, <1>b DEF Parsing
    <3>3. Current(c, <<s, n + 1>>)'
      BY <3>1, <3>2 DEF Current, Parsing
    <3> QED BY <3>1, <3>3
  <2>2. CASE rc = "done"
    <3>1. ETip(e) = None /\ stream'[s].st = "reply"
      BY <2>2 DEF ETip
    <3>2. \A r \in Streams \ Mixable' : ~Parsing(r, c)'
      BY <3>1, <1>2, <1>5, <1>b DEF Parsing
    <3> QED BY <3>1, <3>2 DEF Current
  <2> QED BY <2>1, <2>2
<1>11. ASSUME NEW d \in Conns \ {c}, NEW t \in Fields \cup {None}, Current(d, t)
       PROVE  Current(d, t)'
  <2>1. t # None => t[1] \in Streams /\ (t[1] \in Mixable \/ t[1] # s)
    BY <1>11, FieldParts DEF Current, Parsing
  <2>2. \A r \in Streams : Parsing(r, d)' => r # s /\ Parsing(r, d)
    BY <1>2 DEF Parsing
  <2> QED BY <2>1, <2>2, <1>2, <1>11 DEF Current, Parsing
<1>12. ASSUME NEW d \in Conns, NEW i \in 0 .. l + 1, Prev(d, i, l + 2)'
       PROVE  Current(d, Tip(d, i))'
  <2>1. CASE d = c
    <3>1. i = l + 1
      BY <2>1, <1>1, <1>12
    <3>2. Tip(d, i)' = ETip(e)
      BY <3>1, <1>1
    <3> QED BY <3>2, <2>1, <1>10 DEF Current, ETip
  <2>2. CASE d # c
    <3>1. i \in 0 .. l /\ Prev(d, i, l + 1)
      BY <2>2, <1>1, <1>12
    <3>2. PICK t \in Fields \cup {None} : t = Tip(d, i) /\ Current(d, t)
      BY <3>1, <1>0, TipType DEF RequestInv, Chain
    <3>3. Current(d, t)' /\ t = Tip(d, i)'
      BY <3>1, <3>2, <2>2, <1>1, <1>11
    <3> QED BY <3>3 DEF Current
  <2> QED BY <2>1, <2>2
<1>13. \A j \in 1 .. l + 1 :
         LET x == events'[j] IN
         /\ x.field # None => x.ip = Addr[x.field[1]]
         /\ x.ret = "ok" => x.field # None
         /\ x.ret = "done" /\ x.field # None => x.field[2] = plan[x.field[1]].request
  <2>1. \A j \in 1 .. l :
         LET x == events[j] IN
         /\ x.field # None => x.ip = Addr[x.field[1]]
         /\ x.ret = "ok" => x.field # None
         /\ x.ret = "done" /\ x.field # None => x.field[2] = plan[x.field[1]].request
    BY <1>0 DEF RequestInv, Chain
  <2>2. /\ e.field # None => e.ip = Addr[e.field[1]]
        /\ e.ret = "ok" => e.field # None
        /\ e.ret = "done" /\ e.field # None => e.field[2] = plan[e.field[1]].request
    BY <1>4, <1>6
  <2> QED BY <2>1, <2>2, <1>1
<1>14. \A r \in Streams : /\ stream'[r].fields <= plan[r].request
                          /\ stream'[r].st = "new" => stream'[r].fields = 0
  BY <1>2, <1>3, <1>4
<1>15. Chain'
  <2>1. Len(events') = l + 1 /\ Len(events') + 1 = l + 2
    BY <1>1
  <2>2. \A j \in 1 .. Len(events') : \A i \in 0 .. j - 1 :
          (Prev(events[j].conn, i, j) => Follows(Tip(events[j].conn, i), events[j]))'
    BY <2>1, <1>9
  <2>3. \A d \in Conns : \A i \in 0 .. Len(events') :
          (Prev(d, i, Len(events) + 1) => Current(d, Tip(d, i)))'
    BY <2>1, <1>12
  <2> QED BY <2>1, <2>2, <2>3, <1>13, <1>14 DEF Chain
<1>16. Pieces'
  BY PiecesKept DEF RequestInv
<1>17. Apart'
  <2>1. /\ \A t, d, j : j \in 0 .. l => (Kept(t, d, j)' <=> Kept(t, d, j))
        /\ \A t, d : Kept(t, d, l + 1)' <=>
             Kept(t, d, l) \/ (d = c /\ e.field # None /\ e.field[1] = t)
    BY <1>a DEF Appended
  <2>2. e.field # None => e.field[1] = s
    BY <1>6
  <2>3. /\ \A r \in Streams \ shared :
             Reported(r) => Over(r) /\ \A d \in Conns : ~Kept(r, d, l)
        /\ \A r \in Streams, d \in Conns :
             Kept(r, d, l) =>
               /\ stream[r].st # "new" /\ (stream[r].st = "headers" => stream[r].conn = d)
               /\ \A d2 \in Conns : Kept(r, d2, l) => d2 = d
        /\ \A r \in Streams \ shared : \A j \in 1 .. l :
             events[j].ret = "done" /\ Kept(r, events[j].conn, j) =>
               /\ Over(r)
               /\ \A i \in j + 1 .. l : events[i].field = None \/ events[i].field[1] # r
        /\ \A i, j \in 1 .. Len(requests) :
             i # j => RequestStreams(requests[i]) \cap RequestStreams(requests[j]) \subseteq shared
    BY <1>0 DEF RequestInv, Apart
  <2>4. ~Over(s) /\ \A r \in Streams : Over(r) => Over(r)'
    BY <1>2 DEF Over
  <2>5. \A r \in Streams \ shared' : Reported(r)' => Over(r)' /\ \A d \in Conns : ~Kept(r, d, l + 1)'
    BY <2>1, <2>2, <2>3, <2>4 DEF Reported
  <2>6. ASSUME NEW r \in Streams, NEW d \in Conns, Kept(r, d, l + 1)'
        PROVE  /\ stream'[r].st # "new" /\ (stream'[r].st = "headers" => stream'[r].conn = d)
               /\ \A d2 \in Conns : Kept(r, d2, l + 1)' => d2 = d
    <3>1. CASE r # s
      BY <3>1, <2>1, <2>2, <2>3, <2>6, <1>2
    <3>2. CASE r = s
      <4>1. \A x \in Conns : Kept(s, x, l + 1)' => x = c
        BY <2>1, <2>3
      <4> QED BY <3>2, <4>1, <2>6
    <3> QED BY <3>1, <3>2
  <2>7. ASSUME NEW r \in Streams \ shared', NEW j \in 1 .. l + 1, NEW x, x = events'[j], x.ret = "done",
               Kept(r, x.conn, j)'
        PROVE  /\ Over(r)'
               /\ \A i \in j + 1 .. l + 1 : events'[i].field = None \/ events'[i].field[1] # r
    <3>1. CASE j \in 1 .. l
      <4>1. x = events[j] /\ j \in 0 .. l
        BY <3>1, <2>7, <1>1
      <4>2. Kept(r, x.conn, j)
        BY <4>1, <2>1, <2>7
      <4>3. Over(r) /\ \A i \in j + 1 .. l : events[i].field = None \/ events[i].field[1] # r
        BY <3>1, <4>1, <4>2, <2>3, <2>7, ZenonT(60)
      <4>4. r # s
        BY <4>3, <2>4
      <4>5. \A i \in j + 1 .. l + 1 : i = l + 1 \/ (i \in 1 .. l /\ i \in j + 1 .. l)
        BY <3>1, <1>1
      <4> QED BY <4>3, <4>4, <4>5, <2>2, <2>4, <1>1
    <3>2. CASE j = l + 1
      <4>1. rc = "done" /\ Kept(r, c, l + 1)'
        <5>1. x = e
          BY <3>2, <2>7, <1>1
        <5> QED BY <5>1, <3>2, <2>7
      <4>2. stream'[r].st # "new" /\ (stream'[r].st = "headers" => stream'[r].conn = c)
        BY <4>1, <2>6
      <4>3. stream'[r].st # "headers"
        BY <4>1, <4>2, <1>2, <1>5
      <4> QED BY <3>2, <4>2, <4>3, <1>1 DEF Over
    <3> QED BY <3>1, <3>2, <1>1
  <2>8. \A i, j \in 1 .. Len(requests') :
          i # j => RequestStreams(requests'[i]) \cap RequestStreams(requests'[j]) \subseteq shared'
    BY <2>3
  <2>9. ASSUME NEW r \in Streams \ shared', NEW j \in 1 .. l + 1
        PROVE  (events[j].ret = "done" /\ Kept(r, events[j].conn, j) =>
                  /\ Over(r)
                  /\ \A i \in j + 1 .. Len(events) :
                       events[i].field = None \/ events[i].field[1] # r)'
    <3>1. PICK x : x = events'[j]
      OBVIOUS
    <3>2. x.ret = "done" /\ Kept(r, x.conn, j)' =>
            /\ Over(r)'
            /\ \A i \in j + 1 .. l + 1 : events'[i].field = None \/ events'[i].field[1] # r
      BY <3>1, <2>7
    <3> QED BY <3>1, <3>2, <1>1
  <2>10. /\ \A r \in Streams \ shared' :
              (Reported(r) => Over(r) /\ \A d \in Conns : ~Kept(r, d, Len(events)))'
         /\ \A r \in Streams, d \in Conns :
              (Kept(r, d, Len(events)) =>
                 /\ stream[r].st # "new" /\ (stream[r].st = "headers" => stream[r].conn = d)
                 /\ \A d2 \in Conns : Kept(r, d2, Len(events)) => d2 = d)'
    BY <2>5, <2>6, <1>1
  <2>11. Len(events') = l + 1
    BY <1>1
  <2> QED BY <2>8, <2>9, <2>10, <2>11 DEF Apart
<1> QED BY <1>15, <1>16, <1>17 DEF RequestInv

LEMMA ReturnRequests ==
  ASSUME Types, Met, RequestInv, NEW w \in Workers, NEW rc \in {"ok", "done"}, ret_parse_headers(w, rc),
         UNCHANGED daemonVars, shared \subseteq shared'
  PROVE  RequestInv'
<1>1. UNCHANGED <<plan, pendingReq, requests>>
  BY DEF ret_parse_headers, daemonVars
<1>2. PICK s \in Streams, c \in Conns, n \in Nat, m \in Nat, e \in FieldEvent :
        /\ stream[s].st = "headers" /\ stream[s].conn = c /\ stream[s].fields = n
        /\ plan[s].request = m
        /\ rc = "ok" => n < m
        /\ rc = "done" => n + 1 >= m
        /\ Only(s) /\ stream'[s].st = (IF rc = "done" THEN "reply" ELSE "headers")
        /\ stream'[s].conn = c /\ stream'[s].fields = (IF n < m THEN n + 1 ELSE n)
        /\ e.conn = c /\ e.ret = rc /\ e.ip = Addr[s]
        /\ e.field = (IF n < m THEN <<s, n + 1>> ELSE None)
        /\ \/ events' = Append(events, e) /\ broken' = broken
           \/ events' = events /\ broken' = broken \cup {s}
  <2> DEFINE s == Parsed(w)
             n == stream[s].fields
             c == stream[s].conn
             m == plan[s].request
             e == [conn |-> c, ret |-> rc, ip |-> Addr[s],
                   field |-> IF n < m THEN <<s, n + 1>> ELSE None]
  <2>1. /\ s \in Streams /\ n \in Nat /\ m \in Nat
        /\ stream[s].st = "headers" /\ stream[s].w = w /\ c \in Conns
        /\ IF rc = "ok" THEN n < m ELSE n + 1 >= m
        /\ Only(s)
        /\ stream'[s].st = (IF rc = "done" THEN "reply" ELSE "headers")
        /\ stream'[s].fields = (IF n < m THEN n + 1 ELSE n)
        /\ stream'[s].conn = c /\ stream'[s].w = w
        /\ stream'[s].base = stream[s].base /\ stream'[s].replied = stream[s].replied
        /\ stream'[s].inserted = stream[s].inserted
        /\ e \in FieldEvent
        /\ \/ Len(events) < MaxRing /\ events' = Append(events, e) /\ broken' = broken
           \/ events' = events /\ broken' = broken \cup {s}
    BY ReturnEffect
  <2>2. e.conn = c /\ e.ret = rc /\ e.ip = Addr[s] /\ e.field = (IF n < m THEN <<s, n + 1>> ELSE None)
    OBVIOUS
  <2> HIDE DEF s, n, c, m, e
  <2> QED BY <2>1, <2>2 DEF n, c, m
<1>3. CASE events' = Append(events, e) /\ broken' = broken
  <2>1. Mixable \subseteq Mixable'
    BY <1>3 DEF Mixable
  <2> QED BY <2>1, <1>1, <1>2, <1>3, SentRequests
<1>4. CASE events' = events /\ broken' = broken \cup {s}
  <2>1. /\ \A t \in Streams \ {s} : stream'[t] = stream[t]
        /\ s \in Mixable' /\ Mixable \subseteq Mixable'
    BY <1>2, <1>4 DEF Only, Mixable
  <2>2. \A r \in Streams : /\ stream[r].fields <= plan[r].request
                           /\ stream[r].st = "new" => stream[r].fields = 0
    BY DEF RequestInv, Chain
  <2>3. ASSUME NEW d \in Conns, NEW t \in Fields \cup {None}, Current(d, t)
        PROVE  Current(d, t)'
    <3>1. t # None => t[1] \in Streams
      BY FieldParts
    <3> QED BY <3>1, <2>1, <2>3 DEF Current, Parsing
  <2>4. \A r \in Streams : /\ stream'[r].fields <= plan[r].request
                           /\ stream'[r].st = "new" => stream'[r].fields = 0
    BY <2>1, <2>2, <1>2
  <2>5. Chain'
    BY <2>1, <2>3, <2>4, <1>1, <1>4, ChainKept DEF RequestInv
  <2>6. Pieces'
    BY <2>1, <1>1, <1>4, PiecesKept DEF RequestInv
  <2>7. Apart'
    BY <2>1, <1>1, <1>2, <1>4, ApartKept DEF RequestInv, Over
  <2> QED BY <2>5, <2>6, <2>7 DEF RequestInv
<1> QED BY <1>2, <1>3, <1>4

-----------------------------------------------------------------------------
(* What a turn of reqEventLoop does to the invariant of the requests.       *)

\* A request after a field: new is old with the field of e.
Added(old, e, new) ==
  /\ e.field = None => new = old
  /\ e.field # None => new \in Request /\ new # None /\ Len(new.fields) \in Nat \ {0}
                       /\ new.fields[Len(new.fields)] = e.field
  /\ e.field # None /\ old = None => new.ip = e.ip /\ Len(new.fields) = 1
  /\ e.field # None /\ old # None =>
       /\ new.ip = old.ip /\ Len(new.fields) = Len(old.fields) + 1
       /\ Len(old.fields) \in Nat
       /\ \A i \in 1 .. Len(old.fields) : new.fields[i] = old.fields[i]

LEMMA FieldAdded ==
  ASSUME NEW old \in Request \cup {None}, NEW e \in FieldEvent
  PROVE  Added(old, e, WithField(old, e))
<1> DEFINE new == WithField(old, e)
<1> SUFFICES Added(old, e, new)
  OBVIOUS
<1>1. CASE e.field = None
  BY <1>1 DEF WithField, Added
<1>2. CASE e.field # None /\ old = None
  <2>1. e.field \in Fields /\ e.ip \in Ips
    BY <1>2 DEF FieldEvent
  <2>2. new = [ip |-> e.ip, fields |-> <<e.field>>]
    BY <1>2 DEF WithField
  <2>3. /\ <<e.field>> \in Seq(Fields) /\ Len(<<e.field>>) = 1 /\ <<e.field>>[1] = e.field
        /\ new.fields = <<e.field>> /\ new.ip = e.ip
    BY <2>1, <2>2
  <2>4. new \in Request
    BY <2>1, <2>2, <2>3 DEF Request
  <2>5. Len(new.fields) = 1 /\ new.fields[Len(new.fields)] = e.field /\ new.ip = e.ip
    BY <2>3
  <2> HIDE DEF new
  <2>6. new # None
    BY <2>4, NoneAssumption
  <2> QED BY <2>4, <2>5, <2>6, <1>2 DEF Added
<1>3. CASE e.field # None /\ old # None
  <2>1. e.field \in Fields /\ old \in Request
    BY <1>3 DEF FieldEvent
  <2>2. new = [old EXCEPT !.fields = Append(old.fields, e.field)]
    BY <1>3 DEF WithField
  <2>3. old.fields \in Seq(Fields)
    BY <2>1 DEF Request
  <2>4. /\ Append(old.fields, e.field) \in Seq(Fields)
        /\ Len(Append(old.fields, e.field)) = Len(old.fields) + 1
        /\ Append(old.fields, e.field)[Len(old.fields) + 1] = e.field
        /\ \A i \in 1 .. Len(old.fields) : Append(old.fields, e.field)[i] = old.fields[i]
        /\ Len(old.fields) \in Nat
    BY <2>1, <2>3
  <2>5. new \in Request /\ new.fields = Append(old.fields, e.field) /\ new.ip = old.ip
    BY <2>1, <2>2, <2>4 DEF Request
  <2>6. /\ Len(new.fields) = Len(old.fields) + 1 /\ Len(new.fields) \in Nat \ {0}
        /\ new.fields[Len(new.fields)] = e.field /\ Len(old.fields) \in Nat
        /\ \A i \in 1 .. Len(old.fields) : new.fields[i] = old.fields[i]
    <3> HIDE DEF new
    <3> QED BY <2>4, <2>5
  <2> HIDE DEF new
  <2>7. new # None
    BY <2>5, NoneAssumption
  <2> QED BY <2>5, <2>6, <2>7, <1>3 DEF Added
<1> QED BY <1>1, <1>2, <1>3

\* Event e is consumed, n stay, and pr is what is pending with its field.
Consumed(n, e, pr) ==
  /\ Len(events) = n + 1 /\ Len(events') = n /\ events[1] = e
  /\ \A i \in 1 .. n : events'[i] = events[i + 1]
  /\ pr = WithField(pendingReq[e.conn], e)
  /\ e.conn \in Conns
  /\ pendingReq'[e.conn] = (IF e.ret = "done" THEN None ELSE pr)
  /\ \A d \in Conns \ {e.conn} : pendingReq'[d] = pendingReq[d]
  /\ requests' = IF e.ret = "done" /\ pr # None THEN Append(requests, pr) ELSE requests

LEMMA ReadReqEffect ==
  ASSUME Types, ReadReq
  PROVE  /\ UNCHANGED <<plan, stream, Mixable, shared>>
         /\ \E n \in Nat, e \in FieldEvent, pr \in Request \cup {None} : Consumed(n, e, pr)
<1>1. PICK e \in FieldEvent, n \in Nat :
        /\ e = Head(events) /\ events[1] = e /\ Len(events) = n + 1 /\ Len(events') = n
        /\ \A i \in 1 .. n : events'[i] = events[i + 1]
  <2>1. events \in Seq(FieldEvent) /\ Len(events) <= MaxRing /\ events # <<>> /\ events' = Tail(events)
    BY DEF Types, RingType, ReadReq
  <2>2. /\ Head(events) \in FieldEvent /\ Len(events) - 1 \in Nat
        /\ Len(events') = Len(events) - 1 /\ Head(events) = events[1]
        /\ \A i \in 1 .. Len(events') : events'[i] = events[i + 1]
        /\ Len(events) = Len(events) - 1 + 1
    BY <2>1, TailFits
  <2> QED BY <2>2
<1>2. e.conn \in Conns /\ e.ret \in {"ok", "done"}
  BY DEF FieldEvent
<1>3. PICK pr \in Request \cup {None} : pr = WithField(pendingReq[e.conn], e)
  BY <1>2, WithFieldType DEF Types, DaemonType
<1>4. \/ /\ e.ret = "done" /\ pendingReq' = [pendingReq EXCEPT ![e.conn] = None]
         /\ requests' = IF pr = None THEN requests ELSE Append(requests, pr)
      \/ e.ret = "ok" /\ pendingReq' = [pendingReq EXCEPT ![e.conn] = pr] /\ requests' = requests
  BY <1>1, <1>3 DEF ReadReq, emitRequest
<1>5. /\ pendingReq'[e.conn] = (IF e.ret = "done" THEN None ELSE pr)
      /\ \A d \in Conns \ {e.conn} : pendingReq'[d] = pendingReq[d]
  BY <1>2, <1>4 DEF Types, DaemonType
<1>6. requests' = IF e.ret = "done" /\ pr # None THEN Append(requests, pr) ELSE requests
  BY <1>4
<1>7. Consumed(n, e, pr)
  BY <1>1, <1>2, <1>3, <1>5, <1>6 DEF Consumed
<1> QED BY <1>7 DEF ReadReq, Mixable

\* Where the chain was when an event is read that is now the first.
Before(d, i, e) == IF i = 0 /\ d # e.conn THEN 0 ELSE i + 1

LEMMA ConsumedChain ==
  ASSUME Types, RequestInv, UNCHANGED <<plan, stream, Mixable, shared>>,
         NEW n \in Nat, NEW e \in FieldEvent, NEW pr \in Request \cup {None}, Consumed(n, e, pr)
  PROVE  Chain'
<1>1. /\ Len(events) = n + 1 /\ Len(events') = n /\ events[1] = e
      /\ \A i \in 1 .. n : events'[i] = events[i + 1]
      /\ e.conn \in Conns
  BY DEF Consumed
<1>2. ASSUME NEW d \in Conns, NEW i \in 0 .. n
      PROVE  /\ Before(d, i, e) \in 0 .. i + 1
             /\ Tip(d, i)' = Tip(d, Before(d, i, e))
  <2>1. CASE i > 0
    <3>1. Tip(d, i)' = ETip(events'[i]) /\ Before(d, i, e) = i + 1 /\ events'[i] = events[i + 1]
      BY <2>1, <1>1 DEF Tip, Before, ETip
    <3> QED BY <3>1, <2>1 DEF Tip, ETip
  <2>2. CASE i = 0 /\ d # e.conn
    <3>1. pendingReq'[d] = pendingReq[d]
      BY <2>2 DEF Consumed
    <3> QED BY <3>1, <2>2 DEF Tip, PTip, Before
  <2>3. CASE i = 0 /\ d = e.conn
    <3>1. Before(d, i, e) = 1 /\ Tip(d, 1) = ETip(e)
      BY <2>3, <1>1 DEF Before, Tip
    <3>2. PTip(d)' = ETip(e)
      <4>1. CASE e.ret = "done"
        <5>1. pendingReq'[d] = None
          BY <2>3, <4>1 DEF Consumed
        <5> QED BY <5>1, <4>1 DEF PTip, ETip
      <4>2. CASE e.ret # "done"
        <5>1. e.ret = "ok"
          BY <4>2 DEF FieldEvent
        <5>2. e.field # None
          <6>1. 1 \in 1 .. Len(events)
            BY <1>1
          <6> QED BY <6>1, <5>1, <1>1 DEF RequestInv, Chain
        <5>3. pendingReq'[d] = pr /\ pr = WithField(pendingReq[d], e)
          BY <2>3, <4>2 DEF Consumed
        <5>4. pendingReq[d] \in Request \cup {None}
          BY DEF Types, DaemonType
        <5>5. pr # None /\ pr.fields[Len(pr.fields)] = e.field
          BY <5>2, <5>3, <5>4, FieldAdded DEF Added
        <5> QED BY <5>3, <5>5, <4>2 DEF PTip, ETip
      <4> QED BY <4>1, <4>2
    <3>3. Tip(d, i)' = PTip(d)'
      BY <2>3 DEF Tip
    <3> QED BY <3>1, <3>2, <3>3, <2>3
  <2> QED BY <2>1, <2>2, <2>3
<1>3. ASSUME NEW d \in Conns, NEW j \in 1 .. n + 1, NEW i \in 0 .. j - 1, Prev(d, i, j)'
      PROVE  Before(d, i, e) \in 0 .. j /\ Prev(d, Before(d, i, e), j + 1)
  <2>1. /\ i = 0 \/ events'[i].conn = d
        /\ \A k \in i + 1 .. j - 1 : events'[k].conn # d
    BY <1>3 DEF Prev
  <2>2. \A k \in i + 2 .. j : events[k].conn # d
    <3> SUFFICES ASSUME NEW k \in i + 2 .. j PROVE events[k].conn # d
      OBVIOUS
    <3>1. k - 1 \in i + 1 .. j - 1 /\ k - 1 \in 1 .. n /\ k - 1 + 1 = k
      BY <1>3
    <3>2. events'[k - 1] = events[k]
      BY <3>1, <1>1
    <3> QED BY <3>1, <3>2, <2>1
  <2>3. CASE i > 0
    <3>1. events[i + 1].conn = d /\ Before(d, i, e) = i + 1
      BY <2>1, <2>3, <1>1, <1>3 DEF Before
    <3> QED BY <3>1, <2>2, <2>3 DEF Prev
  <2>4. CASE i = 0 /\ d = e.conn
    <3>1. events[1].conn = d /\ Before(d, i, e) = 1
      BY <2>4, <1>1 DEF Before
    <3> QED BY <3>1, <2>2, <2>4 DEF Prev
  <2>5. CASE i = 0 /\ d # e.conn
    <3>1. events[1].conn # d /\ Before(d, i, e) = 0
      BY <2>5, <1>1 DEF Before
    <3>2. \A k \in 1 .. j : k = 1 \/ k \in i + 2 .. j
      BY <2>5, <1>3
    <3> QED BY <3>1, <3>2, <2>2, <2>5 DEF Prev
  <2> QED BY <2>3, <2>4, <2>5
<1>4. ASSUME NEW j \in 1 .. n, NEW i \in 0 .. j - 1, NEW x, x = events'[j], Prev(x.conn, i, j)'
      PROVE  Follows(Tip(x.conn, i), x)'
  <2>1. x = events[j + 1] /\ j + 1 \in 1 .. Len(events) /\ x.conn \in Conns
    <3>1. x = events[j + 1] /\ j + 1 \in 1 .. Len(events)
      BY <1>1, <1>4
    <3> QED BY <3>1, EventFields
  <2>2. PICK k \in 0 .. j : Prev(x.conn, k, j + 1) /\ Tip(x.conn, i)' = Tip(x.conn, k)
    <3>1. PICK d \in Conns : d = x.conn
      BY <2>1
    <3>2. Prev(d, i, j)'
      BY <3>1, <1>4
    <3>3. Before(d, i, e) \in 0 .. j /\ Prev(d, Before(d, i, e), j + 1)
      BY <3>2, <1>3
    <3>4. Tip(d, i)' = Tip(d, Before(d, i, e))
      BY <1>2
    <3> QED BY <3>1, <3>3, <3>4
  <2>3. PICK t : t = Tip(x.conn, k)
    OBVIOUS
  <2>4. Follows(t, x)
    <3>1. k \in 0 .. (j + 1) - 1
      OBVIOUS
    <3> QED BY <3>1, <2>1, <2>2, <2>3 DEF RequestInv, Chain
  <2>5. t = Tip(x.conn, i)'
    BY <2>2, <2>3
  <2> QED BY <2>4, <2>5 DEF Follows
<1>5. ASSUME NEW d \in Conns, NEW i \in 0 .. n, Prev(d, i, n + 1)'
      PROVE  Current(d, Tip(d, i))'
  <2>1. PICK k \in 0 .. n + 1 : Prev(d, k, n + 2) /\ Tip(d, i)' = Tip(d, k)
    <3>1. n + 1 \in 1 .. n + 1 /\ i \in 0 .. (n + 1) - 1 /\ n + 1 + 1 = n + 2
      OBVIOUS
    <3> QED BY <3>1, <1>2, <1>3, <1>5
  <2>2. PICK t : t = Tip(d, k) /\ Current(d, t)
    <3>1. Len(events) + 1 = n + 2 /\ Len(events) = n + 1
      BY <1>1
    <3> QED BY <3>1, <2>1 DEF RequestInv, Chain
  <2>3. t = Tip(d, i)'
    BY <2>1, <2>2
  <2> QED BY <2>2, <2>3 DEF Current, Parsing
<1>6. ASSUME NEW j \in 1 .. n
      PROVE  LET x == events'[j] IN
             /\ x.field # None => x.ip = Addr[x.field[1]]
             /\ x.ret = "ok" => x.field # None
             /\ x.ret = "done" /\ x.field # None => x.field[2] = plan[x.field[1]].request
  <2>1. events'[j] = events[j + 1] /\ j + 1 \in 1 .. Len(events)
    BY <1>1
  <2> QED BY <2>1 DEF RequestInv, Chain
<1>7. \A j \in 1 .. n : \A i \in 0 .. j - 1 :
        (Prev(events[j].conn, i, j) => Follows(Tip(events[j].conn, i), events[j]))'
  BY <1>4
<1>8. \A d \in Conns : \A i \in 0 .. n :
        (Prev(d, i, Len(events) + 1) => Current(d, Tip(d, i)))'
  BY <1>1, <1>5
<1>9. \A r \in Streams : /\ stream[r].fields <= plan[r].request
                         /\ stream[r].st = "new" => stream[r].fields = 0
  BY DEF RequestInv, Chain
<1>10. Len(events') = n
  BY <1>1
<1> QED BY <1>6, <1>7, <1>8, <1>9, <1>10 DEF Chain

LEMMA WholeAtItsEnd ==
  ASSUME Types, NEW r \in Request, NEW s \in Streams, BeginsAs(r, s),
         Len(r.fields) = plan[s].request
  PROVE  r = WholeRequest(s)
<1>1. r.fields \in Seq(Fields) /\ r = [ip |-> r.ip, fields |-> r.fields]
  BY DEF Request
<1>2. PICK q : q = [k \in 1 .. plan[s].request |-> <<s, k>>]
  OBVIOUS
<1>3. plan[s].request \in Nat /\ \A k \in 1 .. plan[s].request : <<s, k>> \in Fields
  BY PlanType DEF Types, Fields
<1>4. q \in Seq(Fields) /\ Len(q) = plan[s].request /\ \A k \in 1 .. plan[s].request : q[k] = <<s, k>>
  BY <1>2, <1>3
<1>5. r.fields = q
  BY <1>1, <1>4, SeqEqual DEF BeginsAs
<1> QED BY <1>1, <1>2, <1>5 DEF WholeRequest, BeginsAs

\* What is pending after a field is still the beginning of a request.
LEMMA StillBegins ==
  ASSUME Types, NEW old \in Request \cup {None}, old # None => Sound(old) /\ old.fields # <<>>,
         NEW e \in FieldEvent, e.field # None, NEW t,
         t = (IF old = None THEN None ELSE old.fields[Len(old.fields)]),
         Follows(t, e), e.ip = Addr[e.field[1]],
         NEW pr, pr = WithField(old, e), RequestStreams(pr) \cap Mixable = {}
  PROVE  BeginsAs(pr, e.field[1]) /\ Len(pr.fields) = e.field[2]
<1>1. PICK s \in Streams, k \in Nat \ {0} : e.field = <<s, k>> /\ e.field[1] = s /\ e.field[2] = k
  BY FieldParts DEF FieldEvent
<1>a. Added(old, e, pr)
  BY FieldAdded
<1>2. /\ pr \in Request /\ Len(pr.fields) \in Nat \ {0}
      /\ pr.fields[Len(pr.fields)] = <<s, k>>
  BY <1>1, <1>a DEF Added
<1>3. \A i \in 1 .. Len(pr.fields) : pr.fields[i][1] \notin Mixable
  BY DEF RequestStreams
<1>4. s \notin Mixable
  BY <1>1, <1>2, <1>3
<1>5. \/ k = 1 /\ (t = None \/ t[1] \in Mixable)
      \/ k > 1 /\ t = <<s, k - 1>>
  BY <1>1, <1>4 DEF Follows
<1>6. CASE old = None
  <2>1. pr.ip = Addr[s] /\ Len(pr.fields) = 1 /\ t = None
    BY <1>1, <1>6, <1>a DEF Added
  <2>2. k = 1
    <3>1. k > 1 => <<s, k - 1>> \in Fields
      BY DEF Fields
    <3> QED BY <3>1, <2>1, <1>5, NoneAssumption
  <2> QED BY <2>1, <2>2, <1>1, <1>2 DEF BeginsAs
<1>7. CASE old # None
  <2>1. PICK n \in Nat \ {0} :
          /\ n = Len(old.fields) /\ pr.ip = old.ip /\ Len(pr.fields) = n + 1
          /\ \A i \in 1 .. n : pr.fields[i] = old.fields[i]
    <3>1. old.fields \in Seq(Fields) /\ old.fields # <<>>
      BY <1>7 DEF Request
    <3>2. Len(old.fields) \in Nat \ {0}
      BY <3>1
    <3> QED BY <3>2, <1>7, <1>a DEF Added
  <2>2. \A i \in 1 .. n : old.fields[i][1] \notin Mixable
    BY <2>1, <1>3
  <2>3. PICK r \in Streams : BeginsAs(old, r)
    BY <2>1, <2>2, <1>7 DEF Sound, RequestStreams
  <2>4. t = <<r, n>> /\ r \notin Mixable
    BY <2>1, <2>2, <2>3, <1>7 DEF BeginsAs
  <2>5. t # None
    <3>1. <<r, n>> \in Fields
      BY DEF Fields
    <3> QED BY <3>1, <2>4, NoneAssumption
  <2>6. r = s /\ k = n + 1
    BY <2>4, <2>5, <1>5
  <2>7. \A i \in 1 .. n + 1 : pr.fields[i] = <<s, i>>
    BY <2>1, <2>3, <2>6, <1>2 DEF BeginsAs
  <2> QED BY <2>1, <2>3, <2>6, <2>7, <1>1 DEF BeginsAs
<1> QED BY <1>6, <1>7

LEMMA ConsumedPieces ==
  ASSUME Types, RequestInv, UNCHANGED <<plan, stream, Mixable, shared>>,
         NEW n \in Nat, NEW e \in FieldEvent, NEW pr \in Request \cup {None}, Consumed(n, e, pr)
  PROVE  Pieces'
<1>1. PICK c \in Conns : c = e.conn
  BY DEF Consumed
<1>2. PICK old \in Request \cup {None} : old = pendingReq[c]
  BY DEF Types, DaemonType
<1>3. /\ old # None => Sound(old) /\ old.fields # <<>>
      /\ pr = WithField(old, e)
  BY <1>1, <1>2 DEF RequestInv, Pieces, Types, DaemonType, Consumed
<1>4. 1 \in 1 .. Len(events) /\ events[1] = e
  BY DEF Consumed
<1>5. /\ e.field # None => e.ip = Addr[e.field[1]]
      /\ e.ret = "ok" => e.field # None
      /\ e.ret = "done" /\ e.field # None => e.field[2] = plan[e.field[1]].request
  BY <1>4 DEF RequestInv, Chain
<1>6. PICK t : t = (IF old = None THEN None ELSE old.fields[Len(old.fields)])
  OBVIOUS
<1>7. Follows(t, e)
  <2>1. 0 \in 0 .. 1 - 1 /\ Prev(c, 0, 1)
    BY DEF Prev
  <2>2. Tip(c, 0) = t
    BY <1>2, <1>6 DEF Tip, PTip
  <2> QED BY <2>1, <2>2, <1>1, <1>4 DEF RequestInv, Chain
<1>8. ASSUME pr # None, RequestStreams(pr) \cap Mixable = {}
      PROVE  \E s \in Streams : BeginsAs(pr, s) /\ (e.ret = "done" => pr = WholeRequest(s))
  <2>1. CASE e.field = None
    <3>1. pr = old
      BY <2>1, <1>3, FieldAdded DEF Added
    <3>2. PICK s \in Streams : BeginsAs(pr, s)
      BY <3>1, <1>3, <1>8 DEF Sound
    <3>3. pr.fields \in Seq(Fields) /\ pr.fields # <<>>
      BY <3>1, <1>3, <1>8 DEF Request
    <3>4. Len(pr.fields) \in Nat \ {0}
      BY <3>3
    <3>5. t = <<s, Len(pr.fields)>>
      BY <3>1, <3>2, <3>4, <1>6, <1>8 DEF BeginsAs
    <3>6. s \notin Mixable /\ t # None
      <4>1. t \in Fields
        BY <3>4, <3>5 DEF Fields
      <4>2. t[1] \in RequestStreams(pr)
        BY <3>1, <3>4, <1>6, <1>8 DEF RequestStreams
      <4> QED BY <4>1, <4>2, <3>5, <1>8, NoneAssumption
    <3>7. Len(pr.fields) = plan[s].request
      BY <3>5, <3>6, <2>1, <1>7 DEF Follows
    <3> QED BY <3>2, <3>7, <1>8, WholeAtItsEnd
  <2>2. CASE e.field # None
    <3>1. e.field[1] \in Streams
      BY <2>2, FieldParts DEF FieldEvent
    <3>2. BeginsAs(pr, e.field[1]) /\ Len(pr.fields) = e.field[2]
      BY <2>2, <1>3, <1>5, <1>6, <1>7, <1>8, StillBegins
    <3>3. e.ret = "done" => pr = WholeRequest(e.field[1])
      BY <3>1, <3>2, <2>2, <1>5, <1>8, WholeAtItsEnd
    <3> QED BY <3>1, <3>2, <3>3
  <2> QED BY <2>1, <2>2
<1>9. ASSUME NEW d \in Conns, NEW r, r = pendingReq'[d], r # None, RequestStreams(r) \cap Mixable = {}
      PROVE  \E s \in Streams : BeginsAs(r, s)
  <2>1. CASE d = c
    <3>1. r = pr
      BY <2>1, <1>1, <1>9 DEF Consumed
    <3> QED BY <3>1, <1>8, <1>9
  <2>2. CASE d # c
    <3>1. r = pendingReq[d]
      BY <2>2, <1>1, <1>9 DEF Consumed
    <3> QED BY <3>1, <1>9 DEF RequestInv, Pieces, Sound
  <2> QED BY <2>1, <2>2
<1>10. ASSUME NEW i \in 1 .. Len(requests'), NEW r, r = requests'[i],
              RequestStreams(r) \cap Mixable = {}
       PROVE  \E s \in Streams : r = WholeRequest(s)
  <2>1. requests \in Seq(Request)
    BY DEF Types, DaemonType
  <2>2. \/ i \in 1 .. Len(requests) /\ r = requests[i]
        \/ r = pr /\ pr # None /\ e.ret = "done"
    BY <2>1, <1>10 DEF Consumed
  <2> QED BY <2>2, <1>8, <1>10 DEF RequestInv, Pieces
<1>11. \A s \in Streams : WholeRequest(s)' = WholeRequest(s)
  BY DEF WholeRequest
<1>12. \A d \in Conns : (pendingReq[d] # None => Sound(pendingReq[d]))'
  BY <1>9, ZenonT(60) DEF Sound, BeginsAs, RequestStreams
<1>13. \A i \in 1 .. Len(requests') :
         (RequestStreams(requests[i]) \cap Mixable = {}
            => \E s \in Streams : requests[i] = WholeRequest(s))'
  BY <1>10, <1>11 DEF RequestStreams
<1> QED BY <1>12, <1>13 DEF Pieces

LEMMA ConsumedApart ==
  ASSUME Types, RequestInv, UNCHANGED <<plan, stream, Mixable, shared>>,
         NEW n \in Nat, NEW e \in FieldEvent, NEW pr \in Request \cup {None}, Consumed(n, e, pr)
  PROVE  Apart'
<1>1. PICK c \in Conns : c = e.conn
  BY DEF Consumed
<1>2. /\ Len(events) = n + 1 /\ Len(events') = n /\ events[1] = e
      /\ \A i \in 1 .. n : events'[i] = events[i + 1]
  BY DEF Consumed
<1>3. ASSUME NEW s \in Streams, pr # None, s \in RequestStreams(pr)
      PROVE  Kept(s, c, 1)
  <2>1. PICK old \in Request \cup {None} : old = pendingReq[c]
    BY DEF Types, DaemonType
  <2>2. Added(old, e, pr)
    BY <2>1, <1>1, FieldAdded DEF Consumed
  <2>3. PICK i \in 1 .. Len(pr.fields) : s = pr.fields[i][1]
    BY <1>3 DEF RequestStreams
  <2>4. CASE e.field = None
    BY <2>1, <2>2, <2>4, <1>3 DEF Added, Kept
  <2>5. CASE e.field # None /\ i = Len(pr.fields)
    <3>1. e.field[1] = s
      BY <2>2, <2>3, <2>5 DEF Added
    <3> QED BY <3>1, <2>5, <1>1, <1>2 DEF Kept
  <2>6. CASE e.field # None /\ i # Len(pr.fields)
    <3>1. old # None /\ i \in 1 .. Len(old.fields) /\ pr.fields[i] = old.fields[i]
      BY <2>2, <2>6 DEF Added
    <3>2. s \in RequestStreams(old)
      BY <3>1, <2>3 DEF RequestStreams
    <3> QED BY <3>1, <3>2, <2>1 DEF Kept
  <2> QED BY <2>4, <2>5, <2>6
<1>4. ASSUME NEW s \in Streams, NEW d \in Conns, NEW j \in 0 .. n, Kept(s, d, j)'
      PROVE  /\ Kept(s, d, j + 1)
             /\ e.ret = "done" /\ d = c =>
                  \E i \in 2 .. n + 1 : events[i].field # None /\ events[i].field[1] = s
  <2>1. CASE \E i \in 1 .. j : /\ events'[i].conn = d /\ events'[i].field # None
                               /\ events'[i].field[1] = s
    <3>1. PICK i \in 1 .. j : /\ events'[i].conn = d /\ events'[i].field # None
                              /\ events'[i].field[1] = s
      BY <2>1
    <3>2. events'[i] = events[i + 1] /\ i + 1 \in 1 .. j + 1 /\ i + 1 \in 2 .. n + 1
      BY <1>2
    <3> QED BY <3>1, <3>2 DEF Kept
  <2>2. CASE pendingReq'[d] # None /\ s \in RequestStreams(pendingReq'[d])
    <3>1. CASE d # c
      <4>1. pendingReq'[d] = pendingReq[d]
        BY <3>1, <1>1 DEF Consumed
      <4> QED BY <4>1, <3>1, <2>2 DEF Kept
    <3>2. CASE d = c
      <4>1. e.ret # "done" /\ pendingReq'[d] = pr
        BY <3>2, <2>2, <1>1 DEF Consumed
      <4>2. Kept(s, c, 1)
        BY <4>1, <2>2, <1>3
      <4> QED BY <4>1, <4>2, <3>2 DEF Kept
    <3> QED BY <3>1, <3>2
  <2> QED BY <2>1, <2>2, <1>4 DEF Kept, RequestStreams
<1>5. /\ \A s \in Streams \ shared :
           Reported(s) => Over(s) /\ \A d \in Conns : ~Kept(s, d, n + 1)
      /\ \A s \in Streams, d \in Conns :
           Kept(s, d, n + 1) =>
             /\ stream[s].st # "new" /\ (stream[s].st = "headers" => stream[s].conn = d)
             /\ \A d2 \in Conns : Kept(s, d2, n + 1) => d2 = d
      /\ \A s \in Streams \ shared : \A j \in 1 .. n + 1 :
           events[j].ret = "done" /\ Kept(s, events[j].conn, j) =>
             /\ Over(s)
             /\ \A i \in j + 1 .. n + 1 : events[i].field = None \/ events[i].field[1] # s
      /\ \A i, j \in 1 .. Len(requests) :
           i # j => RequestStreams(requests[i]) \cap RequestStreams(requests[j]) \subseteq shared
  BY <1>2, ZenonT(60) DEF RequestInv, Apart
<1>6. \A s \in Streams : Kept(s, c, 1) => Kept(s, c, n + 1)
  BY DEF Kept
<1>7. PICK out : out <=> (e.ret = "done" /\ pr # None)
  OBVIOUS
<1>8. /\ requests \in Seq(Request)
      /\ requests' = IF out THEN Append(requests, pr) ELSE requests
  BY <1>7 DEF Types, DaemonType, Consumed
<1>9. ASSUME NEW s \in Streams, Reported(s)'
      PROVE  Reported(s) \/ (out /\ s \in RequestStreams(pr))
  BY <1>8, <1>9 DEF Reported, RequestStreams
<1>10. \A r \in Request : RequestStreams(r) \subseteq Streams
  <2> SUFFICES ASSUME NEW r \in Request, NEW i \in 1 .. Len(r.fields) PROVE r.fields[i][1] \in Streams
    BY DEF RequestStreams
  <2>1. r.fields \in Seq(Fields)
    BY DEF Request
  <2>2. r.fields[i] \in Fields
    BY <2>1
  <2> QED BY <2>2, FieldParts
<1>11. ASSUME out, NEW i \in 1 .. Len(requests)
       PROVE  RequestStreams(requests[i]) \cap RequestStreams(pr) \subseteq shared
  <2> SUFFICES ASSUME NEW s \in RequestStreams(requests[i]), s \in RequestStreams(pr), s \notin shared
               PROVE  FALSE
    OBVIOUS
  <2>1. s \in Streams /\ Reported(s)
    BY <1>8, <1>10 DEF Reported
  <2> QED BY <2>1, <1>3, <1>5, <1>6, <1>7, <1>11
<1>12. \A i, j \in 1 .. Len(requests') :
         i # j => RequestStreams(requests'[i]) \cap RequestStreams(requests'[j]) \subseteq shared
  <2>1. CASE ~out
    BY <2>1, <1>5, <1>8
  <2>2. CASE out
    <3>1. /\ Len(requests') = Len(requests) + 1 /\ Len(requests) \in Nat
          /\ requests'[Len(requests) + 1] = pr
          /\ \A i \in 1 .. Len(requests) : requests'[i] = requests[i]
      BY <2>2, <1>7, <1>8
    <3> SUFFICES ASSUME NEW i \in 1 .. Len(requests'), NEW j \in 1 .. Len(requests'), i # j
                 PROVE  RequestStreams(requests'[i]) \cap RequestStreams(requests'[j]) \subseteq shared
      OBVIOUS
    <3>2. CASE i \in 1 .. Len(requests) /\ j \in 1 .. Len(requests)
      BY <3>1, <3>2, <1>5
    <3>3. CASE i = Len(requests) + 1
      <4>1. j \in 1 .. Len(requests)
        BY <3>1, <3>3
      <4> QED BY <4>1, <3>1, <3>3, <2>2, <1>11
    <3>4. CASE j = Len(requests) + 1
      <4>1. i \in 1 .. Len(requests)
        BY <3>1, <3>4
      <4> QED BY <4>1, <3>1, <3>4, <2>2, <1>11
    <3> QED BY <3>1, <3>2, <3>3, <3>4
  <2> QED BY <2>1, <2>2
<1>13. ASSUME NEW s \in Streams \ shared, Reported(s)'
       PROVE  Over(s) /\ \A d \in Conns : ~Kept(s, d, n)'
  <2>1. CASE Reported(s)
    <3>1. n \in 0 .. n
      OBVIOUS
    <3> QED BY <3>1, <2>1, <1>4, <1>5
  <2>2. CASE out /\ s \in RequestStreams(pr)
    <3>1. Kept(s, c, 1) /\ 1 \in 1 .. n + 1 /\ events[1].ret = "done" /\ events[1].conn = c
      BY <2>2, <1>1, <1>2, <1>3, <1>7
    <3>2. Over(s) /\ \A i \in 2 .. n + 1 : events[i].field = None \/ events[i].field[1] # s
      <4>1. 1 + 1 = 2
        OBVIOUS
      <4> QED BY <3>1, <4>1, <1>5
    <3>3. ASSUME NEW d \in Conns, Kept(s, d, n)' PROVE FALSE
      <4>1. n \in 0 .. n
        OBVIOUS
      <4>2. Kept(s, d, n + 1)
        BY <3>3, <4>1, <1>4
      <4>3. d = c
        BY <3>1, <4>2, <1>5, <1>6
      <4> QED BY <3>2, <3>3, <4>1, <4>3, <2>2, <1>4, <1>7
    <3> QED BY <3>2, <3>3
  <2> QED BY <2>1, <2>2, <1>9, <1>13
<1>14. ASSUME NEW s \in Streams, NEW d \in Conns, Kept(s, d, n)'
       PROVE  /\ stream[s].st # "new" /\ (stream[s].st = "headers" => stream[s].conn = d)
              /\ \A d2 \in Conns : Kept(s, d2, n)' => d2 = d
  <2>1. n \in 0 .. n
    OBVIOUS
  <2>2. \A x \in Conns : Kept(s, x, n)' => Kept(s, x, n + 1)
    BY <2>1, <1>4
  <2> QED BY <2>2, <1>5, <1>14
<1>15. ASSUME NEW s \in Streams \ shared, NEW j \in 1 .. n, NEW x, x = events'[j], x.ret = "done",
              Kept(s, x.conn, j)'
       PROVE  /\ Over(s)
              /\ \A i \in j + 1 .. n : events'[i].field = None \/ events'[i].field[1] # s
  <2>1. x = events[j + 1] /\ j + 1 \in 1 .. n + 1 /\ j \in 0 .. n
    BY <1>2, <1>15
  <2>2. x.conn \in Conns
    BY <2>1, <1>2, EventFields
  <2>3. Kept(s, x.conn, j + 1)
    BY <2>1, <2>2, <1>4, <1>15
  <2>4. Over(s) /\ \A i \in (j + 1) + 1 .. n + 1 : events[i].field = None \/ events[i].field[1] # s
    BY <2>1, <2>3, <1>5, <1>15
  <2>5. \A i \in j + 1 .. n : i + 1 \in (j + 1) + 1 .. n + 1 /\ events'[i] = events[i + 1]
    BY <1>2
  <2> QED BY <2>4, <2>5
<1>16. ASSUME NEW s \in Streams \ shared', NEW j \in 1 .. n
       PROVE  (events[j].ret = "done" /\ Kept(s, events[j].conn, j) =>
                 /\ Over(s)
                 /\ \A i \in j + 1 .. Len(events) :
                      events[i].field = None \/ events[i].field[1] # s)'
  <2>1. PICK x : x = events'[j]
    OBVIOUS
  <2>2. x.ret = "done" /\ Kept(s, x.conn, j)' =>
          /\ Over(s)
          /\ \A i \in j + 1 .. n : events'[i].field = None \/ events'[i].field[1] # s
    BY <2>1, <1>15
  <2>3. Over(s) => Over(s)'
    BY DEF Over
  <2> QED BY <2>1, <2>2, <2>3, <1>2
<1>17. /\ \A s \in Streams \ shared' :
            (Reported(s) => Over(s) /\ \A d \in Conns : ~Kept(s, d, Len(events)))'
       /\ \A s \in Streams, d \in Conns :
            (Kept(s, d, Len(events)) =>
               /\ stream[s].st # "new" /\ (stream[s].st = "headers" => stream[s].conn = d)
               /\ \A d2 \in Conns : Kept(s, d2, Len(events)) => d2 = d)'
  <2>1. \A s \in Streams : Over(s) => Over(s)'
    BY DEF Over
  <2> QED BY <2>1, <1>2, <1>13, <1>14
<1>18. Len(events') = n
  BY <1>2
<1> QED BY <1>12, <1>16, <1>17, <1>18 DEF Apart

LEMMA ReadReqRequests ==
  ASSUME Types, RequestInv, ReadReq
  PROVE  RequestInv'
<1>1. PICK n \in Nat, e \in FieldEvent, pr \in Request \cup {None} : Consumed(n, e, pr)
  BY ReadReqEffect
<1>2. UNCHANGED <<plan, stream, Mixable, shared>>
  BY ReadReqEffect
<1> QED BY <1>1, <1>2, ConsumedChain, ConsumedPieces, ConsumedApart DEF RequestInv

-----------------------------------------------------------------------------
(* The requests.                                                            *)

LEMMA EncodeRequests ==
  ASSUME Types, RequestInv, NEW w \in Workers, NEW s \in Streams, entry_encode_field_lri(w, s),
         UNCHANGED daemonVars, shared \subseteq shared'
  PROVE  RequestInv'
<1>1. UNCHANGED <<plan, events, pendingReq, requests>> /\ Mixable \subseteq Mixable'
  BY DEF entry_encode_field_lri, daemonVars, Mixable
<1>2. /\ Only(s) /\ stream'[s].st = stream[s].st /\ stream'[s].conn = stream[s].conn
      /\ stream'[s].fields = stream[s].fields
  BY EncodeEffect
<1>3. \A r \in Streams : /\ stream'[r].st = stream[r].st /\ stream'[r].conn = stream[r].conn
                         /\ stream'[r].fields = stream[r].fields
  BY <1>2 DEF Only
<1> QED BY <1>1, <1>3, QuietRequests

LEMMA InsertRequests ==
  ASSUME Types, RequestInv, NEW w \in Workers, NEW s \in Streams, entry_table(w, s),
         UNCHANGED daemonVars, shared \subseteq shared'
  PROVE  RequestInv'
<1>1. UNCHANGED <<plan, events, pendingReq, requests>> /\ Mixable \subseteq Mixable'
  BY DEF entry_table, daemonVars, Mixable
<1>2. /\ Only(s) /\ stream'[s].st = stream[s].st /\ stream'[s].conn = stream[s].conn
      /\ stream'[s].fields = stream[s].fields
  BY InsertEffect
<1>3. \A r \in Streams : /\ stream'[r].st = stream[r].st /\ stream'[r].conn = stream[r].conn
                         /\ stream'[r].fields = stream[r].fields
  BY <1>2 DEF Only
<1> QED BY <1>1, <1>3, QuietRequests

LEMMA ErrorRequests ==
  ASSUME Types, RequestInv, NEW w \in Workers, ret_parse_headers_error(w), UNCHANGED daemonVars,
         shared \subseteq shared'
  PROVE  RequestInv'
<1>1. PICK s : s = Parsed(w)
  OBVIOUS
<1>2. s \in Streams
  BY <1>1, ParsedIsOwn DEF ret_parse_headers_error, Types
<1>3. /\ stream' = Ended(s) /\ UNCHANGED <<plan, events, pendingReq, requests>>
      /\ broken' = IF stream[s].fields > 0 THEN broken \cup {s} ELSE broken
  BY <1>1 DEF ret_parse_headers_error, daemonVars
<1>4. /\ Mixable \subseteq Mixable'
      /\ stream[s].st = "headers" /\ stream[s].fields > 0 => s \in Mixable'
  BY <1>3 DEF Mixable
<1> QED BY <1>2, <1>3, <1>4, EndedRequests

LEMMA CloseRequests ==
  ASSUME Types, RequestInv, NEW w \in Workers, NEW s \in Streams, CloseStream(w, s),
         UNCHANGED daemonVars, shared \subseteq shared'
  PROVE  RequestInv'
<1>1. /\ stream' = Ended(s) /\ UNCHANGED <<plan, events, pendingReq, requests>>
      /\ broken' = IF stream[s].st = "headers" /\ stream[s].fields > 0
                   THEN broken \cup {s} ELSE broken
  BY DEF CloseStream, daemonVars
<1>2. /\ Mixable \subseteq Mixable'
      /\ stream[s].st = "headers" /\ stream[s].fields > 0 => s \in Mixable'
  BY <1>1 DEF Mixable
<1> QED BY <1>1, <1>2, EndedRequests

LEMMA AgainRequests ==
  ASSUME Types, RequestInv, NEW w \in Workers, ret_parse_headers_again(w), UNCHANGED daemonVars,
         shared \subseteq shared'
  PROVE  RequestInv'
<1>1. UNCHANGED <<plan, stream, events, pendingReq, requests>> /\ Mixable \subseteq Mixable'
  BY DEF ret_parse_headers_again, daemonVars, Mixable
<1> QED BY <1>1, QuietRequests

LEMMA InitRequests == Init => RequestInv
<1> SUFFICES ASSUME Init PROVE RequestInv
  OBVIOUS
<1>1. /\ events = <<>> /\ requests = <<>> /\ \A c \in Conns : pendingReq[c] = None
      /\ \A s \in Streams : stream[s].st = "new" /\ stream[s].fields = 0 /\ 0 <= plan[s].request
  BY H3Assumption DEF Init, InitProbes, NewStream
<1>2. \A c \in Conns : Current(c, None)
  BY <1>1 DEF Current, Parsing
<1>3. Chain
  BY <1>1, <1>2 DEF Chain, Tip, PTip
<1>4. Pieces
  BY <1>1 DEF Pieces
<1>5. Apart
  BY <1>1 DEF Apart, Kept, Reported
<1> QED BY <1>3, <1>4, <1>5 DEF RequestInv

LEMMA RequestsStep == Types /\ Met /\ RequestInv /\ [Next]_vars => RequestInv'
<1> SUFFICES ASSUME Types, Met, RequestInv, [Next]_vars PROVE RequestInv'
  OBVIOUS
<1>1. ASSUME NEW w \in Workers, Nginx(w) PROVE RequestInv'
  BY <1>1, NginxSteps, SharedGrows, EntryRequests, AgainRequests, ErrorRequests, ReturnRequests,
     EncodeRequests, InsertRequests, CloseRequests, Zenon
<1>2. ASSUME UNCHANGED <<plan, stream, events, broken, shared, pendingReq, requests>> PROVE RequestInv'
  <2>1. Mixable \subseteq Mixable'
    BY <1>2 DEF Mixable
  <2> QED BY <2>1, <1>2, QuietRequests
<1>3. CASE ReadTable \/ ReadResp \/ appendRespField \/ FlushTake
           \/ (\E pr \in toEmit : FlushEmit(pr)) \/ \E c \in Conns : Elapse(c)
  BY <1>2, <1>3 DEF ReadTable, ReadResp, appendRespField, FlushTake, FlushEmit, Elapse, probeVars
<1>4. CASE UNCHANGED vars
  BY <1>2, <1>4 DEF vars, probeVars, daemonVars
<1> QED BY <1>1, <1>3, <1>4, ReadReqRequests DEF Next

(* However the fields of several streams are interleaved, streams abort,     *)
(* events are lost and addresses used again, in one worker or in several: a  *)
(* request goes on to the analysis once, with all of its own fields in order *)
(* and nothing else, as a request of its own client, unless it has fields of *)
(* a broken stream or of one that has met another worker's at its address    *)
(* (takeReqFields and emitRequest).                                          *)
THEOREM RequestsAreWhole == Spec => []RequestsWhole
<1>1. RequestInv => RequestsWhole
  BY DEF RequestInv, Pieces, Apart, RequestsWhole
<1> QED BY <1>1, InitTypes, TypesStep, InitMet, MetStep, InitRequests, RequestsStep, PTL DEF Spec

-----------------------------------------------------------------------------
(* The responses. A stream that is not unclean has its fields, in order and *)
(* alone, under one object: those pending, the one in respEventLoop's hand, *)
(* those in the ring buffer. They go from there all at once.                *)

Length(c) == IF pendingResp[c] = None THEN 0 ELSE Len(pendingResp[c].fields)
InHand(c) == rev # None /\ rev.conn = c
Read(c) == Length(c) + One(InHand(c))

\* Fields of stream s are under object c.
Waits(s, c) ==
  \/ \E i \in 1 .. Len(resp_events) : resp_events[i].conn = c /\ resp_events[i].value[1] = s
  \/ InHand(c) /\ rev.field.value[1] = s
  \/ pendingResp[c] # None /\ s \in StreamsOf(pendingResp[c].fields)

UnderWay(s, c) ==
  /\ pendingResp[c] # None =>
       /\ pendingResp[c].ip = Addr[s]
       /\ \A k \in 1 .. Length(c) : pendingResp[c].fields[k].value = <<s, k>>
  /\ InHand(c) => rev.ip = Addr[s] /\ rev.field.value = <<s, Length(c) + 1>>
  /\ \A i \in 1 .. Len(resp_events) :
       resp_events[i].conn = c =>
         /\ resp_events[i].ip = Addr[s]
         /\ resp_events[i].value = <<s, Read(c) + Ahead(resp_events, c, i)>>
  /\ Read(c) + Ahead(resp_events, c, Len(resp_events)) = stream[s].replied
  /\ pendingResp[c] = None => s \in FirstFieldUnderway(c)

WholeReply(pr, s) ==
  /\ pr.ip = Addr[s] /\ Len(pr.fields) = Len(plan[s].reply)
  /\ \A k \in 1 .. Len(pr.fields) : pr.fields[k].value = <<s, k>>

Gone(s) ==
  \/ \E pr \in toEmit : s \in StreamsOf(pr.fields)
  \/ \E i \in 1 .. Len(responses) : s \in StreamsOf(responses[i].fields)

Together ==
  \A s \in Streams, c \in Conns :
    s \notin unclean /\ Waits(s, c) =>
      /\ UnderWay(s, c) /\ stream[s].replied > 0
      /\ stream[s].st = "reply" => stream[s].conn = c
      /\ c \in idle => Length(c) = Len(plan[s].reply)
      /\ \A d \in Conns : Waits(s, d) => d = c
      /\ ~Gone(s)

Sending ==
  \A s \in Streams :
    /\ stream[s].replied <= Len(plan[s].reply)
    /\ s \notin unclean /\ stream[s].st = "reply" /\ stream[s].replied \in 1 .. Len(plan[s].reply) - 1
         => Waits(s, stream[s].conn)
    /\ s \notin unclean /\ Gone(s) => stream[s].replied = Len(plan[s].reply)

Flushed ==
  /\ \A pr \in toEmit : \A s \in StreamsOf(pr.fields) \ unclean : WholeReply(pr, s)
  /\ \A i \in 1 .. Len(responses) : \A s \in StreamsOf(responses[i].fields) \ unclean :
       WholeReply(responses[i], s)
  /\ \A p, q \in toEmit :
       p # q => StreamsOf(p.fields) \cap StreamsOf(q.fields) \subseteq unclean
  /\ \A p \in toEmit, i \in 1 .. Len(responses) :
       StreamsOf(p.fields) \cap StreamsOf(responses[i].fields) \subseteq unclean
  /\ \A i, j \in 1 .. Len(responses) :
       i # j => StreamsOf(responses[i].fields) \cap StreamsOf(responses[j].fields) \subseteq unclean

ResponseInv == Together /\ Sending /\ Flushed

-----------------------------------------------------------------------------
(* What the steps do to the invariant of the responses.                     *)

LEMMA UnflushedWait ==
  ASSUME NEW s, NEW c
  PROVE  s \in Unflushed(c) <=> Waits(s, c)
BY DEF Unflushed, Waits, InHand

LEMMA FlushedKept ==
  ASSUME Flushed, UNCHANGED <<plan, toEmit, responses>>, unclean \subseteq unclean'
  PROVE  Flushed'
<1>1. \A pr \in toEmit : \A s \in StreamsOf(pr.fields) \ unclean' : WholeReply(pr, s)'
  BY DEF Flushed, WholeReply
<1>2. \A i \in 1 .. Len(responses) : \A s \in StreamsOf(responses[i].fields) \ unclean' :
        WholeReply(responses[i], s)'
  BY DEF Flushed, WholeReply
<1>3. /\ \A p, q \in toEmit :
           p # q => StreamsOf(p.fields) \cap StreamsOf(q.fields) \subseteq unclean'
      /\ \A p \in toEmit, i \in 1 .. Len(responses) :
           StreamsOf(p.fields) \cap StreamsOf(responses[i].fields) \subseteq unclean'
      /\ \A i, j \in 1 .. Len(responses) :
           i # j => StreamsOf(responses[i].fields) \cap StreamsOf(responses[j].fields) \subseteq unclean'
  BY DEF Flushed
<1>4. \A fs : StreamsOf(fs)' = StreamsOf(fs)
  BY DEF StreamsOf
<1> QED BY <1>1, <1>2, <1>3, <1>4 DEF Flushed

\* The fields of responses stay where they are.
LEMMA QuietResponses ==
  ASSUME Types, ResponseInv, unclean \subseteq unclean',
         UNCHANGED <<plan, resp_events, rev, pendingResp, toEmit, responses>>,
         \A s \in Streams :
           /\ stream'[s].replied = stream[s].replied
           /\ stream'[s].st = "reply" /\ stream'[s].replied > 0 =>
                stream[s].st = "reply" /\ stream'[s].conn = stream[s].conn,
         \A s \in Streams, c \in Conns :
           s \notin unclean' /\ Waits(s, c) /\ c \in idle' => Length(c) = Len(plan[s].reply)
  PROVE  ResponseInv'
<1>1. \A s, c : Waits(s, c)' <=> Waits(s, c)
  BY DEF Waits, InHand, StreamsOf
<1>2. \A c : Length(c)' = Length(c)
  BY DEF Length
<1>3. \A s : Gone(s)' <=> Gone(s)
  BY DEF Gone, StreamsOf
<1>4. ASSUME NEW s \in Streams, NEW c \in Conns, UnderWay(s, c) PROVE UnderWay(s, c)'
  BY <1>4 DEF UnderWay, Read, Length, InHand, FirstFieldUnderway
<1>5. Together'
  <2> SUFFICES ASSUME NEW s \in Streams, NEW c \in Conns, s \notin unclean', Waits(s, c)
               PROVE  /\ UnderWay(s, c)' /\ stream'[s].replied > 0
                      /\ stream'[s].st = "reply" => stream'[s].conn = c
                      /\ c \in idle' => Length(c) = Len(plan[s].reply)
                      /\ \A d \in Conns : Waits(s, d) => d = c
                      /\ ~Gone(s)
    BY <1>1, <1>2, <1>3 DEF Together
  <2>1. /\ UnderWay(s, c) /\ stream[s].replied > 0
        /\ stream[s].st = "reply" => stream[s].conn = c
        /\ \A d \in Conns : Waits(s, d) => d = c
        /\ ~Gone(s)
    BY DEF ResponseInv, Together
  <2> QED BY <2>1, <1>4
<1>6. Sending'
  <2> SUFFICES ASSUME NEW s \in Streams
               PROVE  /\ stream'[s].replied <= Len(plan[s].reply)
                      /\ s \notin unclean' /\ stream'[s].st = "reply"
                           /\ stream'[s].replied \in 1 .. Len(plan[s].reply) - 1
                           => Waits(s, stream'[s].conn)
                      /\ s \notin unclean' /\ Gone(s) => stream'[s].replied = Len(plan[s].reply)
    BY <1>1, <1>3 DEF Sending
  <2>1. /\ stream[s].replied <= Len(plan[s].reply)
        /\ s \notin unclean /\ stream[s].st = "reply"
             /\ stream[s].replied \in 1 .. Len(plan[s].reply) - 1
             => Waits(s, stream[s].conn)
        /\ s \notin unclean /\ Gone(s) => stream[s].replied = Len(plan[s].reply)
    BY DEF ResponseInv, Sending
  <2>2. stream'[s].replied \in 1 .. Len(plan[s].reply) - 1 => stream'[s].replied > 0
    OBVIOUS
  <2> QED BY <2>1, <2>2
<1>7. Flushed'
  BY FlushedKept DEF ResponseInv
<1> QED BY <1>5, <1>6, <1>7 DEF ResponseInv

\* A pause ends a response that is whole, or makes it unclean.
LEMMA ElapseResponses ==
  ASSUME Types, ResponseInv, NEW o \in Conns, Elapse(o)
  PROVE  ResponseInv'
<1>1. UNCHANGED <<plan, stream, resp_events, rev, pendingResp, toEmit, responses>>
  BY DEF Elapse, probeVars
<1>2. /\ pendingResp[o] # None /\ idle' = idle \cup {o}
      /\ unclean' = unclean \cup {s \in StreamsOf(pendingResp[o].fields) :
                                    FieldsOf(s, pendingResp[o].fields) < Len(plan[s].reply)}
  BY DEF Elapse
<1>3. ASSUME NEW s \in Streams, s \notin unclean', Waits(s, o)
      PROVE  Length(o) = Len(plan[s].reply)
  <2>1. UnderWay(s, o) /\ s \notin unclean /\ stream[s].replied <= Len(plan[s].reply)
    BY <1>2, <1>3 DEF ResponseInv, Together, Sending
  <2>2. PICK fs \in Seq(RespField) : fs = pendingResp[o].fields /\ fs # <<>>
    BY <1>2 DEF Types, DaemonType, Pending
  <2>3. PICK n \in Nat \ {0} : n = Len(fs) /\ n = Length(o)
    BY <2>2, <1>2 DEF Length
  <2>4. \A k \in 1 .. n : fs[k].value = <<s, k>>
    BY <2>1, <2>2, <2>3, <1>2 DEF UnderWay
  <2>5. s \in StreamsOf(fs)
    BY <2>3, <2>4 DEF StreamsOf
  <2>6. FieldsOf(s, fs) = n
    <3>1. {i \in 1 .. Len(fs) : fs[i].value[1] = s} = 1 .. n
      BY <2>3, <2>4
    <3>2. Cardinality(1 .. n) = n
      BY FS_Interval
    <3> QED BY <3>1, <3>2 DEF FieldsOf
  <2>7. n >= Len(plan[s].reply)
    <3>1. ~(n < Len(plan[s].reply))
      BY <2>2, <2>5, <2>6, <1>2, <1>3
    <3>2. Len(plan[s].reply) \in Nat
      BY PlanType DEF Types
    <3> QED BY <3>1, <3>2
  <2>8. n <= stream[s].replied
    <3>1. Ahead(resp_events, o, Len(resp_events)) \in Nat
      BY AheadType DEF Types, RingType
    <3>2. n + One(InHand(o)) + Ahead(resp_events, o, Len(resp_events)) = stream[s].replied
      BY <2>1, <2>3 DEF UnderWay, Read
    <3> QED BY <3>1, <3>2 DEF One
  <2>9. stream[s].replied \in Nat /\ Len(plan[s].reply) \in Nat
    BY PlanType DEF Types, StreamRecord
  <2> QED BY <2>1, <2>3, <2>7, <2>8, <2>9
<1>4. ASSUME NEW s \in Streams, NEW c \in Conns, s \notin unclean', Waits(s, c), c \in idle'
      PROVE  Length(c) = Len(plan[s].reply)
  <2>1. CASE c = o
    BY <2>1, <1>3, <1>4
  <2>2. CASE c # o
    BY <2>2, <1>2, <1>4 DEF ResponseInv, Together
  <2> QED BY <2>1, <2>2
<1> QED BY <1>1, <1>2, <1>4, QuietResponses

LEMMA NoneAhead ==
  ASSUME NEW ring, NEW c, NEW n \in Nat, \A i \in 1 .. n : ring[i].conn # c
  PROVE  Ahead(ring, c, n) = 0
<1>1. OfConn(ring, c, n) = {}
  BY DEF OfConn
<1> QED BY <1>1, FS_EmptySet DEF Ahead

LEMMA HolderAddress ==
  ASSUME Types, NEW s \in Streams, stream[s].conn # None
  PROVE  AddrText(stream[s].w, stream[s].conn) = Addr[s]
<1>1. Holders(stream[s].w, stream[s].conn) = {s}
  BY DEF Types, OwnObject, Holders
<1>2. (CHOOSE t \in Holders(stream[s].w, stream[s].conn) : TRUE) = s
  BY <1>1
<1> QED BY <1>1, <1>2 DEF AddrText

\* A response field of stream s, event e, reaches the ring buffer of n events or is lost.
Encoded(s, e, n) ==
  /\ n \in Nat /\ n = Len(resp_events)
  /\ e.conn \in Conns /\ e.value = <<s, stream[s].replied + 1>>
  /\ e.conn = stream[s].conn => e.ip = Addr[s]
  /\ stream[s].replied \in Nat /\ stream[s].replied + 1 <= Len(plan[s].reply)
  /\ stream[s].st = "reply" /\ stream[s].conn \in Conns
  /\ stream'[s].st = "reply" /\ stream'[s].conn = stream[s].conn
  /\ stream'[s].replied = stream[s].replied + 1
  /\ \A r \in Streams \ {s} : stream'[r] = stream[r]
  /\ UNCHANGED <<plan, table, table_events, lostInserts, daemonVars>>
  /\ \/ /\ Len(resp_events') = n + 1 /\ resp_events'[n + 1] = e
        /\ \A i \in 1 .. n : resp_events'[i] = resp_events[i]
        /\ \A d, i : i \in 0 .. n => Ahead(resp_events', d, i) = Ahead(resp_events, d, i)
        /\ \A d : Ahead(resp_events', d, n + 1) = Ahead(resp_events, d, n) + One(e.conn = d)
     \/ resp_events' = resp_events /\ s \in unclean'
  /\ unclean \subseteq unclean'
  /\ s \notin unclean' => /\ e.conn = stream[s].conn
                          /\ \A r \in Streams : Waits(r, e.conn) => r = s
  /\ \A r \in Streams \ {s} : Waits(r, e.conn) => r \in unclean'

\* What the field refers to.
NameEncoded(s, e) ==
  /\ \E k \in 1 .. Len(plan[s].reply) :
       e.dynamic = plan[s].reply[k].dynamic /\ e.index = plan[s].reply[k].index
  /\ e.means = IF e.dynamic THEN table[s][Base(s) - e.index] ELSE StaticName(e.index)
  /\ stream'[s].base = Base(s) /\ stream'[s].inserted = stream[s].inserted
  /\ \A i \in 1 .. Len(plan[s].reply) :
       plan[s].reply[i].dynamic => plan[s].reply[i].index < stream[s].inserted
  /\ shifted \subseteq shifted' /\ shared' = shared
  /\ stream[s].replied = 0 /\ s \notin shifted' =>
       \A i \in 1 .. Len(table_events) : table_events[i].conn # e.conn

LEMMA EncodeEffects ==
  ASSUME Types, NEW w \in Workers, NEW s \in Streams, Encode(w, s), UNCHANGED daemonVars
  PROVE  \E e \in RespEvent, n \in Nat : Encoded(s, e, n) /\ NameEncoded(s, e)
<1>1. PICK c : c = pid_conn_map[w]
  OBVIOUS
<1>2. PICK e : e = [conn |-> c, ip |-> AddrText(w, c),
                    dynamic |-> plan[s].reply[stream[s].replied + 1].dynamic,
                    index |-> plan[s].reply[stream[s].replied + 1].index,
                    value |-> <<s, stream[s].replied + 1>>,
                    means |-> NameMeant(s, plan[s].reply[stream[s].replied + 1])]
  OBVIOUS
<1>3. /\ stream[s].replied + 1 \in 1 .. Len(plan[s].reply)
      /\ stream[s].st = "reply" /\ stream[s].conn \in Conns /\ c \in Conns
      /\ Only(s)
      /\ stream'[s].st = stream[s].st /\ stream'[s].conn = stream[s].conn
      /\ stream'[s].replied = stream[s].replied + 1
      /\ e \in RespEvent
      /\ \/ Len(resp_events) < MaxRing /\ resp_events' = Append(resp_events, e)
         \/ Len(resp_events) >= MaxRing /\ resp_events' = resp_events
  BY <1>1, <1>2, EncodeEffect DEF Encode
<1>4. e.conn = c /\ e.value = <<s, stream[s].replied + 1>> /\ e.ip = AddrText(w, c)
  BY <1>2
<1>5. /\ stream[s].replied \in Nat /\ stream[s].conn # None /\ Len(plan[s].reply) \in Nat
  BY <1>3, PlanType, H3Assumption DEF Types, StreamRecord
<1>6. c = stream[s].conn => e.ip = Addr[s]
  <2>1. stream[s].w = w
    BY DEF Encode, entry_encode_field_lri
  <2> QED BY <2>1, <1>4, <1>5, HolderAddress
<1>7. PICK n \in Nat : n = Len(resp_events)
  BY DEF Types, RingType
<1>8. UNCHANGED <<plan, table, table_events, lostInserts, daemonVars>>
  BY DEF Encode, entry_encode_field_lri
<1>9. PICK others : others = Unflushed(c) \ {s}
  OBVIOUS
<1>10. unclean' = unclean \cup (IF others = {} THEN {} ELSE others \cup {s})
                    \cup (IF c # stream[s].conn \/ ~HasRoom(resp_events) THEN {s} ELSE {})
  BY <1>1, <1>9 DEF Encode
<1>11. \A r : r \in others <=> Waits(r, c) /\ r # s
  BY <1>9, UnflushedWait
<1>12. /\ unclean \subseteq unclean'
       /\ s \notin unclean' => c = stream[s].conn /\ Len(resp_events) < MaxRing /\ others = {}
       /\ others \subseteq unclean'
  BY <1>10 DEF HasRoom
<1>13. \/ /\ Len(resp_events') = n + 1 /\ resp_events'[n + 1] = e
          /\ \A i \in 1 .. n : resp_events'[i] = resp_events[i]
          /\ \A d, i : i \in 0 .. n => Ahead(resp_events', d, i) = Ahead(resp_events, d, i)
          /\ \A d : Ahead(resp_events', d, n + 1) = Ahead(resp_events, d, n) + One(c = d)
       \/ resp_events' = resp_events /\ s \in unclean'
  <2>1. CASE Len(resp_events) < MaxRing /\ resp_events' = Append(resp_events, e)
    <3>1. resp_events \in Seq(RespEvent)
      BY DEF Types, RingType
    <3>2. /\ Len(resp_events') = n + 1 /\ resp_events'[n + 1] = e
          /\ \A i \in 1 .. n : resp_events'[i] = resp_events[i]
      BY <3>1, <2>1, <1>3, <1>7
    <3>3. ASSUME NEW d, NEW i \in 0 .. n PROVE Ahead(resp_events', d, i) = Ahead(resp_events, d, i)
      BY <3>1, <2>1, <1>3, <1>7, AheadAppend
    <3>4. ASSUME NEW d
          PROVE  Ahead(resp_events', d, n + 1) = Ahead(resp_events, d, n) + One(c = d)
      <4>1. Ahead(resp_events', d, n + 1) = Ahead(resp_events', d, n) + One(resp_events'[n + 1].conn = d)
        BY AheadNext
      <4> QED BY <4>1, <3>2, <3>3, <1>4
    <3> QED BY <3>2, <3>3, <3>4
  <2>2. CASE Len(resp_events) >= MaxRing /\ resp_events' = resp_events
    <3>1. ~(Len(resp_events) < MaxRing)
      BY <2>2, <1>7, H3Assumption
    <3> QED BY <3>1, <2>2, <1>12
  <2> QED BY <2>1, <2>2, <1>3
<1>14. NameEncoded(s, e)
  <2>1. PICK k \in 1 .. Len(plan[s].reply) : k = stream[s].replied + 1
    BY <1>3
  <2>2. /\ e.dynamic = plan[s].reply[k].dynamic /\ e.index = plan[s].reply[k].index
        /\ e.means = NameMeant(s, plan[s].reply[k])
    BY <2>1, <1>2
  <2>3. e.means = IF e.dynamic THEN table[s][Base(s) - e.index] ELSE StaticName(e.index)
    BY <2>2 DEF NameMeant
  <2>4. stream'[s].base = Base(s) /\ stream'[s].inserted = stream[s].inserted
    BY EncodeEffect DEF Encode
  <2>5. \A i \in 1 .. Len(plan[s].reply) :
          plan[s].reply[i].dynamic => plan[s].reply[i].index < stream[s].inserted
    BY DEF Encode, entry_encode_field_lri
  <2>6. shifted' = IF /\ stream[s].replied = 0
                      /\ \E i \in 1 .. Len(table_events) : table_events[i].conn = pid_conn_map[w]
                   THEN shifted \cup {s} ELSE shifted
    BY DEF Encode
  <2>7. e.conn = pid_conn_map[w]
    BY <1>1, <1>2
  <2>8. shared' = shared
    BY DEF Encode
  <2> QED BY <2>2, <2>3, <2>4, <2>5, <2>6, <2>7, <2>8 DEF NameEncoded
<1>15. Encoded(s, e, n)
  BY <1>3, <1>4, <1>5, <1>6, <1>7, <1>8, <1>11, <1>12, <1>13 DEF Encoded, Only
<1> QED BY <1>3, <1>14, <1>15

LEMMA NothingWaits ==
  ASSUME Types, NEW c \in Conns, \A r \in Streams : ~Waits(r, c)
  PROVE  /\ pendingResp[c] = None /\ ~InHand(c)
         /\ \A i \in 1 .. Len(resp_events) : resp_events[i].conn # c
<1>1. pendingResp[c] = None
  <2> SUFFICES ASSUME pendingResp[c] # None PROVE FALSE
    OBVIOUS
  <2>1. PICK fs \in Seq(RespField) : fs = pendingResp[c].fields /\ fs # <<>>
    BY DEF Types, DaemonType, Pending
  <2>2. 1 \in 1 .. Len(fs) /\ fs[1] \in RespField
    BY <2>1
  <2>3. fs[1].value[1] \in Streams /\ fs[1].value[1] \in StreamsOf(fs)
    BY <2>2, FieldParts DEF RespField, StreamsOf
  <2> QED BY <2>1, <2>3 DEF Waits
<1>2. ~InHand(c)
  <2> SUFFICES ASSUME InHand(c) PROVE FALSE
    OBVIOUS
  <2>1. rev \in Reading
    BY DEF InHand, Types, DaemonType
  <2>2. rev.field.value[1] \in Streams
    BY <2>1, FieldParts DEF Reading, RespField
  <2> QED BY <2>2 DEF Waits
<1>3. ASSUME NEW i \in 1 .. Len(resp_events), resp_events[i].conn = c PROVE FALSE
  <2>1. resp_events[i] \in RespEvent
    BY DEF Types, RingType
  <2>2. resp_events[i].value[1] \in Streams
    BY <2>1, FieldParts DEF RespEvent
  <2> QED BY <2>2, <1>3 DEF Waits
<1> QED BY <1>1, <1>2, <1>3

LEMMA EncodedUnderWay ==
  ASSUME Types, ResponseInv, NEW s \in Streams, NEW e \in RespEvent, NEW n \in Nat, Encoded(s, e, n),
         s \notin unclean'
  PROVE  UnderWay(s, e.conn)' /\ (e.conn \in idle => Length(e.conn) = Len(plan[s].reply))
<1>1. PICK c \in Conns : c = e.conn /\ c = stream[s].conn
  BY DEF Encoded
<1>2. PICK k \in Nat \ {0} :
        /\ k = stream[s].replied + 1 /\ k - 1 = stream[s].replied /\ k <= Len(plan[s].reply)
        /\ stream'[s].replied = k /\ e.value = <<s, k>> /\ e.ip = Addr[s]
  BY <1>1 DEF Encoded
<1>3. /\ n = Len(resp_events)
      /\ Len(resp_events') = n + 1 /\ resp_events'[n + 1] = e
      /\ \A i \in 1 .. n : resp_events'[i] = resp_events[i]
      /\ \A i \in 0 .. n : Ahead(resp_events', c, i) = Ahead(resp_events, c, i)
      /\ Ahead(resp_events', c, n + 1) = Ahead(resp_events, c, n) + 1
  BY <1>1 DEF Encoded, One
<1>4. UNCHANGED <<pendingResp, rev, idle>>
  BY DEF Encoded, daemonVars
<1>5. Length(c)' = Length(c) /\ (InHand(c)' <=> InHand(c)) /\ Read(c)' = Read(c)
  BY <1>4 DEF Length, InHand, Read
<1>6. /\ s \notin unclean
      /\ \A r \in Streams : Waits(r, c) => r = s
      /\ k - 1 \in 1 .. Len(plan[s].reply) - 1 => Waits(s, c)
  BY <1>1, <1>2 DEF Encoded, ResponseInv, Sending
<1>7. Length(c) \in Nat /\ Read(c) \in Nat /\ Ahead(resp_events, c, n) \in Nat
  <2>1. pendingResp[c] # None => Len(pendingResp[c].fields) \in Nat
    BY DEF Types, DaemonType, Pending
  <2>2. One(InHand(c)) \in Nat
    BY DEF One
  <2> QED BY <2>1, <2>2, AheadType DEF Length, Read
<1>8. CASE Waits(s, c)
  <2>1. UnderWay(s, c) /\ (c \in idle => Length(c) = Len(plan[s].reply))
    BY <1>6, <1>8 DEF ResponseInv, Together
  <2>2. Read(c) + Ahead(resp_events, c, n) = k - 1
    BY <2>1, <1>2, <1>3 DEF UnderWay
  <2>3. \A i \in 1 .. n + 1 : resp_events'[i].conn = c =>
          /\ resp_events'[i].ip = Addr[s]
          /\ resp_events'[i].value = <<s, Read(c) + Ahead(resp_events', c, i)>>
    <3> SUFFICES ASSUME NEW i \in 1 .. n + 1, resp_events'[i].conn = c
                 PROVE  /\ resp_events'[i].ip = Addr[s]
                        /\ resp_events'[i].value = <<s, Read(c) + Ahead(resp_events', c, i)>>
      OBVIOUS
    <3>1. CASE i \in 1 .. n
      BY <3>1, <2>1, <1>3 DEF UnderWay
    <3>2. CASE i = n + 1
      BY <3>2, <2>2, <1>2, <1>3, <1>7, SMTT(60)
    <3> QED BY <3>1, <3>2
  <2>4. Read(c) + Ahead(resp_events', c, n + 1) = k
    BY <2>2, <1>2, <1>3, <1>7
  <2>5. pendingResp[c] = None => s \in FirstFieldUnderway(c)'
    <3> SUFFICES ASSUME pendingResp[c] = None PROVE s \in FirstFieldUnderway(c)'
      OBVIOUS
    <3>1. \/ \E i \in 1 .. n : resp_events[i].conn = c /\ resp_events[i].value = <<s, 1>>
          \/ rev # None /\ rev.conn = c /\ rev.field.value = <<s, 1>>
      BY <2>1, <1>3 DEF UnderWay, FirstFieldUnderway
    <3>2. \A i \in 1 .. n : i \in 1 .. n + 1
      OBVIOUS
    <3> QED BY <3>1, <3>2, <1>3, <1>4 DEF FirstFieldUnderway
  <2> QED BY <2>1, <2>3, <2>4, <2>5, <1>1, <1>2, <1>3, <1>4, <1>5, ZenonT(60) DEF UnderWay
<1>9. CASE ~Waits(s, c)
  <2>1. \A r \in Streams : ~Waits(r, c)
    BY <1>6, <1>9
  <2>2. k = 1
    BY <1>2, <1>6, <1>9
  <2>3. pendingResp[c] = None
    BY <2>1, NothingWaits
  <2>4. ~InHand(c)
    BY <2>1, NothingWaits
  <2>5. \A i \in 1 .. n : resp_events[i].conn # c
    BY <2>1, <1>3, NothingWaits
  <2>6. Ahead(resp_events, c, n) = 0
    BY <2>5, NoneAhead
  <2>7. Length(c) = 0 /\ Read(c) = 0
    BY <2>3, <2>4 DEF Length, Read, One
  <2>8. \A i \in 1 .. n + 1 : resp_events'[i].conn = c =>
          /\ resp_events'[i].ip = Addr[s]
          /\ resp_events'[i].value = <<s, Read(c) + Ahead(resp_events', c, i)>>
    <3> SUFFICES ASSUME NEW i \in 1 .. n + 1, resp_events'[i].conn = c
                 PROVE  /\ resp_events'[i].ip = Addr[s]
                        /\ resp_events'[i].value = <<s, Read(c) + Ahead(resp_events', c, i)>>
      OBVIOUS
    <3>1. i = n + 1
      BY <2>5, <1>3
    <3>2. Read(c) + Ahead(resp_events', c, n + 1) = k
      BY <2>2, <2>6, <2>7, <1>3
    <3> QED BY <3>1, <3>2, <1>2, <1>3
  <2>9. s \in FirstFieldUnderway(c)'
    <3>1. /\ n + 1 \in 1 .. Len(resp_events') /\ resp_events'[n + 1].conn = c
          /\ resp_events'[n + 1].value = <<s, 1>>
      <4>1. e.conn = c /\ e.value = <<s, 1>>
        BY <2>2, <1>1, <1>2
      <4> QED BY <4>1, <1>3
    <3> QED BY <3>1 DEF FirstFieldUnderway
  <2>10. Read(c) + Ahead(resp_events', c, n + 1) = k
    BY <2>2, <2>6, <2>7, <1>3
  <2>11. c \notin idle
    BY <2>3 DEF Types, DaemonType
  <2> QED BY <2>3, <2>4, <2>8, <2>9, <2>10, <2>11, <1>1, <1>2, <1>3, <1>4, <1>5 DEF UnderWay
<1> QED BY <1>8, <1>9

LEMMA EncodedWaits ==
  ASSUME NEW s \in Streams, NEW e \in RespEvent, NEW n \in Nat, Encoded(s, e, n),
         NEW r, NEW d, Waits(r, d)'
  PROVE  Waits(r, d) \/ (r = s /\ d = e.conn)
<1>1. /\ UNCHANGED <<pendingResp, rev>> /\ n = Len(resp_events) /\ e.value[1] = s
      /\ \/ /\ Len(resp_events') = n + 1 /\ resp_events'[n + 1] = e
            /\ \A i \in 1 .. n : resp_events'[i] = resp_events[i]
         \/ resp_events' = resp_events
  BY DEF Encoded, daemonVars
<1>2. \/ \E i \in 1 .. Len(resp_events') : resp_events'[i].conn = d /\ resp_events'[i].value[1] = r
      \/ InHand(d) /\ rev.field.value[1] = r
      \/ pendingResp[d] # None /\ r \in StreamsOf(pendingResp[d].fields)
  BY <1>1 DEF Waits, InHand, StreamsOf
<1>3. ASSUME NEW i \in 1 .. Len(resp_events'), resp_events'[i].conn = d, resp_events'[i].value[1] = r
      PROVE  Waits(r, d) \/ (r = s /\ d = e.conn)
  <2>1. i \in 1 .. n \/ (i = n + 1 /\ resp_events'[i] = e) \/ resp_events' = resp_events
    BY <1>1
  <2> QED BY <2>1, <1>1, <1>3 DEF Waits
<1> QED BY <1>2, <1>3 DEF Waits

LEMMA EncodeResponses ==
  ASSUME Types, ResponseInv, NEW w \in Workers, NEW s \in Streams, Encode(w, s), UNCHANGED daemonVars
  PROVE  ResponseInv'
<1>1. PICK e \in RespEvent, n \in Nat : Encoded(s, e, n)
  BY EncodeEffects
<1>2. PICK c \in Conns : c = e.conn
  BY <1>1 DEF Encoded
<1>3. /\ UNCHANGED <<plan, pendingResp, rev, idle, toEmit, responses>> /\ unclean \subseteq unclean'
      /\ \A r \in Streams \ {s} : stream'[r] = stream[r]
      /\ n = Len(resp_events)
      /\ \/ /\ Len(resp_events') = n + 1 /\ resp_events'[n + 1] = e
            /\ \A i \in 1 .. n : resp_events'[i] = resp_events[i]
            /\ \A d, i : i \in 0 .. n => Ahead(resp_events', d, i) = Ahead(resp_events, d, i)
            /\ \A d : Ahead(resp_events', d, n + 1) = Ahead(resp_events, d, n) + One(e.conn = d)
         \/ resp_events' = resp_events /\ s \in unclean'
  BY <1>1 DEF Encoded, daemonVars
<1>4. /\ \A d : Length(d)' = Length(d)
      /\ \A d : InHand(d)' <=> InHand(d)
      /\ \A d : Read(d)' = Read(d)
      /\ \A r : Gone(r)' <=> Gone(r)
  BY <1>3 DEF Length, InHand, Read, Gone, StreamsOf
<1>5. ASSUME NEW r, NEW d, Waits(r, d)' PROVE Waits(r, d) \/ (r = s /\ d = c)
  BY <1>1, <1>2, <1>5, EncodedWaits
<1>6. ASSUME NEW r, NEW d, Waits(r, d) PROVE Waits(r, d)'
  <2>1. \A i \in 1 .. n : i \in 1 .. Len(resp_events') /\ resp_events'[i] = resp_events[i]
    BY <1>3
  <2> QED BY <2>1, <1>3, <1>6 DEF Waits, InHand, StreamsOf
<1>7. s \notin unclean' => Waits(s, c)' /\ c = stream[s].conn
  <2>1. s \notin unclean' => n + 1 \in 1 .. Len(resp_events') /\ resp_events'[n + 1] = e
    BY <1>3
  <2> QED BY <2>1, <1>1, <1>2 DEF Encoded, Waits
<1>8. s \in unclean \/ ~Gone(s)
  BY <1>1 DEF Encoded, ResponseInv, Sending
<1>9. ASSUME NEW r \in Streams \ {s}, NEW d \in Conns, r \notin unclean', Waits(r, d)
      PROVE  UnderWay(r, d)'
  <2>1. d # c /\ UnderWay(r, d)
    BY <1>1, <1>2, <1>3, <1>9 DEF Encoded, ResponseInv, Together
  <2>2. CASE resp_events' = resp_events
    BY <2>1, <2>2, <1>3, <1>4, <1>9 DEF UnderWay, FirstFieldUnderway
  <2>3. CASE resp_events' # resp_events
    <3>1. /\ Len(resp_events') = n + 1 /\ resp_events'[n + 1] = e
          /\ \A i \in 1 .. n : resp_events'[i] = resp_events[i]
          /\ \A i \in 0 .. n : Ahead(resp_events', d, i) = Ahead(resp_events, d, i)
          /\ Ahead(resp_events', d, n + 1) = Ahead(resp_events, d, n)
      <4>1. Ahead(resp_events, d, n) \in Nat
        BY AheadType
      <4> QED BY <4>1, <2>1, <2>3, <1>2, <1>3 DEF One
    <3>2. \A i \in 1 .. n + 1 : resp_events'[i].conn = d =>
            /\ resp_events'[i].ip = Addr[r]
            /\ resp_events'[i].value = <<r, Read(d) + Ahead(resp_events', d, i)>>
      <4> SUFFICES ASSUME NEW i \in 1 .. n + 1, resp_events'[i].conn = d
                   PROVE  /\ resp_events'[i].ip = Addr[r]
                          /\ resp_events'[i].value = <<r, Read(d) + Ahead(resp_events', d, i)>>
        OBVIOUS
      <4>1. i \in 1 .. n
        BY <3>1, <2>1, <1>2
      <4> QED BY <4>1, <3>1, <2>1, <1>3 DEF UnderWay
    <3>3. Read(d) + Ahead(resp_events', d, n + 1) = stream'[r].replied
      BY <3>1, <2>1, <1>3, <1>9 DEF UnderWay
    <3>4. pendingResp[d] = None => r \in FirstFieldUnderway(d)'
      <4> SUFFICES ASSUME pendingResp[d] = None PROVE r \in FirstFieldUnderway(d)'
        OBVIOUS
      <4>1. \/ \E i \in 1 .. n : resp_events[i].conn = d /\ resp_events[i].value = <<r, 1>>
            \/ rev # None /\ rev.conn = d /\ rev.field.value = <<r, 1>>
        BY <2>1, <1>3 DEF UnderWay, FirstFieldUnderway
      <4>2. \A i \in 1 .. n : i \in 1 .. n + 1
        OBVIOUS
      <4> QED BY <4>1, <4>2, <3>1, <1>3 DEF FirstFieldUnderway
    <3> QED BY <3>1, <3>2, <3>3, <3>4, <2>1, <1>3, <1>4 DEF UnderWay
  <2> QED BY <2>2, <2>3
<1>10. Together'
  <2> SUFFICES ASSUME NEW r \in Streams, NEW d \in Conns, r \notin unclean', Waits(r, d)'
               PROVE  /\ UnderWay(r, d)' /\ stream'[r].replied > 0
                      /\ stream'[r].st = "reply" => stream'[r].conn = d
                      /\ d \in idle => Length(d) = Len(plan[r].reply)
                      /\ \A x \in Conns : Waits(r, x)' => x = d
                      /\ ~Gone(r)
    BY <1>3, <1>4 DEF Together
  <2>1. CASE r # s
    <3>1. \A x \in Conns : Waits(r, x)' => Waits(r, x)
      BY <2>1, <1>5
    <3>2. /\ stream[r].replied > 0
          /\ stream[r].st = "reply" => stream[r].conn = d
          /\ d \in idle => Length(d) = Len(plan[r].reply)
          /\ \A x \in Conns : Waits(r, x) => x = d
          /\ ~Gone(r)
      BY <3>1, <1>3 DEF ResponseInv, Together
    <3> QED BY <3>1, <3>2, <2>1, <1>3, <1>9
  <2>2. CASE r = s
    <3>1. /\ stream[s].st = "reply" /\ stream'[s].st = "reply" /\ stream'[s].conn = stream[s].conn
          /\ stream[s].replied \in Nat /\ stream'[s].replied = stream[s].replied + 1
      BY <1>1 DEF Encoded
    <3>2. ASSUME NEW x \in Conns, Waits(s, x)' PROVE x = c
      <4>1. Waits(s, x) => x = stream[s].conn
        BY <3>1, <2>2, <1>3 DEF ResponseInv, Together
      <4> QED BY <4>1, <3>2, <2>2, <1>5, <1>7
    <3>3. d = c
      BY <3>2, <2>2
    <3>4. UnderWay(s, c)' /\ (c \in idle => Length(c) = Len(plan[s].reply))
      BY <2>2, <1>1, <1>2, EncodedUnderWay
    <3> QED BY <3>1, <3>2, <3>3, <3>4, <2>2, <1>3, <1>7, <1>8
  <2> QED BY <2>1, <2>2
<1>11. Sending'
  <2> SUFFICES ASSUME NEW r \in Streams, NEW x, x = stream'[r].conn
               PROVE  /\ stream'[r].replied <= Len(plan[r].reply)
                      /\ r \notin unclean' /\ stream'[r].st = "reply"
                           /\ stream'[r].replied \in 1 .. Len(plan[r].reply) - 1
                           => Waits(r, x)'
                      /\ r \notin unclean' /\ Gone(r) => stream'[r].replied = Len(plan[r].reply)
    BY <1>3, <1>4 DEF Sending
  <2>1. CASE r # s
    <3>1. /\ stream[r].replied <= Len(plan[r].reply)
          /\ r \notin unclean /\ stream[r].st = "reply"
               /\ stream[r].replied \in 1 .. Len(plan[r].reply) - 1
               => Waits(r, stream[r].conn)
          /\ r \notin unclean /\ Gone(r) => stream[r].replied = Len(plan[r].reply)
      BY DEF ResponseInv, Sending
    <3>2. x = stream[r].conn
      BY <2>1, <1>3
    <3>3. Waits(r, x) => Waits(r, x)'
      BY <1>6
    <3> QED BY <3>1, <3>2, <3>3, <2>1, <1>3
  <2>2. CASE r = s
    <3>1. /\ stream'[s].replied = stream[s].replied + 1 /\ stream[s].replied + 1 <= Len(plan[s].reply)
          /\ stream'[s].conn = stream[s].conn
      BY <1>1 DEF Encoded
    <3>2. s \notin unclean' => Waits(s, x)'
      <4>1. s \notin unclean' => x = c /\ Waits(s, c)'
        BY <3>1, <2>2, <1>7
      <4> QED BY <4>1
    <3> QED BY <3>1, <3>2, <2>2, <1>3, <1>8
  <2> QED BY <2>1, <2>2
<1>12. Flushed'
  BY <1>3, FlushedKept DEF ResponseInv
<1> QED BY <1>10, <1>11, <1>12 DEF ResponseInv

\* respEventLoop takes event e, and n stay in the ring buffer.
Fetched(e, n) ==
  /\ n \in Nat /\ Len(resp_events) = n + 1 /\ Len(resp_events') = n /\ resp_events[1] = e
  /\ \A i \in 1 .. n : resp_events'[i] = resp_events[i + 1]
  /\ \A d, i : i \in 0 .. n =>
       Ahead(resp_events, d, i + 1) = Ahead(resp_events', d, i) + One(e.conn = d)
  /\ \A d : Ahead(resp_events, d, 1) = One(e.conn = d)
  /\ rev = None /\ rev' # None /\ rev'.conn = e.conn /\ rev'.ip = e.ip
  /\ rev'.field.value = e.value /\ rev'.field.means = e.means
  /\ rev'.field.name = resolveIndexed(e.conn, e.dynamic, e.index, currentBase(e.conn))
  /\ UNCHANGED <<plan, stream, table, table_events, lostInserts, pendingResp, dynamicTables, idle,
                 toEmit, responses, unclean, shifted, shared>>

LEMMA ReadRespEffect ==
  ASSUME Types, ReadResp
  PROVE  \E e \in RespEvent, n \in Nat : Fetched(e, n)
<1>1. PICK e \in RespEvent, n \in Nat :
        /\ e = Head(resp_events) /\ resp_events[1] = e /\ Len(resp_events) = n + 1
        /\ Len(resp_events') = n /\ \A i \in 1 .. n : resp_events'[i] = resp_events[i + 1]
        /\ resp_events' = Tail(resp_events) /\ resp_events \in Seq(RespEvent) /\ resp_events # <<>>
  <2>1. /\ resp_events \in Seq(RespEvent) /\ Len(resp_events) <= MaxRing /\ resp_events # <<>>
        /\ resp_events' = Tail(resp_events)
    BY DEF Types, RingType, ReadResp
  <2>2. /\ Head(resp_events) \in RespEvent /\ Len(resp_events) - 1 \in Nat
        /\ Len(resp_events') = Len(resp_events) - 1 /\ Head(resp_events) = resp_events[1]
        /\ \A i \in 1 .. Len(resp_events') : resp_events'[i] = resp_events[i + 1]
        /\ Len(resp_events) = Len(resp_events) - 1 + 1
    BY <2>1, TailFits
  <2> QED BY <2>1, <2>2
<1>2. ASSUME NEW d, NEW i \in 0 .. n
      PROVE  Ahead(resp_events, d, i + 1) = Ahead(resp_events', d, i) + One(e.conn = d)
  BY <1>1, AheadTail
<1>3. ASSUME NEW d PROVE Ahead(resp_events, d, 1) = One(e.conn = d)
  <2>1. Ahead(resp_events, d, 0 + 1) = Ahead(resp_events, d, 0) + One(resp_events[0 + 1].conn = d)
    BY AheadNext
  <2> QED BY <2>1, <1>1, AheadNone DEF One
<1>4. PICK x : x = resolveIndexed(e.conn, e.dynamic, e.index, currentBase(e.conn))
  OBVIOUS
<1>5. /\ rev = None
      /\ rev' = [conn |-> e.conn, ip |-> e.ip,
                 field |-> [name |-> x, means |-> e.means, value |-> e.value]]
  BY <1>1, <1>4 DEF ReadResp
<1>6. rev' # None
  <2>1. DaemonType' /\ rev' \in Reading
    <3>1. Types'
      BY ReadRespKeeps
    <3>2. [name |-> x, means |-> e.means, value |-> e.value] \in RespField
      <4>1. x \in Meanings \cup {Unresolved}
        <5>1. dynamicTables[e.conn] \in Seq(Names) /\ e.index \in Nat
          BY DEF Types, DaemonType, RespEvent
        <5>2. currentBase(e.conn) \in Nat
          <6>1. pendingResp[e.conn] # None => pendingResp[e.conn].base \in Nat
            BY DEF Types, DaemonType, Pending, RespEvent
          <6> QED BY <6>1, <5>1 DEF currentBase
        <5>3. resolveIndexed(e.conn, e.dynamic, e.index, currentBase(e.conn)) \in Names \cup {Unresolved}
          BY <5>1, <5>2, StaticType DEF resolveIndexed
        <5> QED BY <5>1, <5>3, <1>4, StaticType
      <4> QED BY <4>1 DEF RespField, RespEvent
    <3> QED BY <3>1, <3>2, <1>5 DEF Types, Reading, RespEvent
  <2> QED BY <2>1, NoneAssumption
<1>7. /\ rev'.conn = e.conn /\ rev'.ip = e.ip /\ rev'.field.value = e.value
      /\ rev'.field.means = e.means /\ rev'.field.name = x
  BY <1>5
<1>8. UNCHANGED <<plan, stream, table, table_events, lostInserts, pendingResp, dynamicTables, idle,
                  toEmit, responses, unclean, shifted, shared>>
  BY DEF ReadResp
<1>9. Fetched(e, n)
  BY <1>1, <1>2, <1>3, <1>4, <1>5, <1>6, <1>7, <1>8 DEF Fetched
<1> QED BY <1>9

LEMMA FetchedWaits ==
  ASSUME NEW e \in RespEvent, NEW n \in Nat, Fetched(e, n), NEW r, NEW d
  PROVE  Waits(r, d)' <=> Waits(r, d)
<1>1. /\ Len(resp_events) = n + 1 /\ Len(resp_events') = n /\ resp_events[1] = e
      /\ \A i \in 1 .. n : resp_events'[i] = resp_events[i + 1]
      /\ rev = None /\ rev' # None /\ rev'.conn = e.conn /\ rev'.field.value = e.value
      /\ pendingResp' = pendingResp
  BY DEF Fetched
<1>2. (\E i \in 1 .. n + 1 : resp_events[i].conn = d /\ resp_events[i].value[1] = r)
        <=> \/ e.conn = d /\ e.value[1] = r
            \/ \E i \in 1 .. n : resp_events'[i].conn = d /\ resp_events'[i].value[1] = r
  <2>1. ASSUME NEW i \in 1 .. n + 1
        PROVE  i = 1 \/ (i - 1 \in 1 .. n /\ resp_events'[i - 1] = resp_events[i])
    <3>1. i # 1 => i - 1 \in 1 .. n /\ (i - 1) + 1 = i
      OBVIOUS
    <3> QED BY <3>1, <1>1
  <2>2. \A i \in 1 .. n : i + 1 \in 1 .. n + 1
    OBVIOUS
  <2>3. 1 \in 1 .. n + 1
    OBVIOUS
  <2> QED BY <2>1, <2>2, <2>3, <1>1
<1>3. InHand(d)' <=> e.conn = d
  BY <1>1 DEF InHand
<1>4. ~InHand(d)
  BY <1>1 DEF InHand
<1> QED BY <1>1, <1>2, <1>3, <1>4 DEF Waits, StreamsOf

LEMMA FetchedUnderWay ==
  ASSUME Types, NEW e \in RespEvent, NEW n \in Nat, Fetched(e, n), NEW s \in Streams,
         NEW d \in Conns, UnderWay(s, d)
  PROVE  UnderWay(s, d)'
<1>1. /\ Len(resp_events) = n + 1 /\ Len(resp_events') = n /\ resp_events[1] = e
      /\ \A i \in 1 .. n : resp_events'[i] = resp_events[i + 1]
      /\ \A i \in 0 .. n : Ahead(resp_events, d, i + 1) = Ahead(resp_events', d, i) + One(e.conn = d)
      /\ Ahead(resp_events, d, 1) = One(e.conn = d)
      /\ rev = None /\ rev' # None /\ rev'.conn = e.conn /\ rev'.ip = e.ip
      /\ rev'.field.value = e.value
      /\ UNCHANGED <<stream, pendingResp>>
  BY DEF Fetched
<1>2. /\ Length(d)' = Length(d) /\ Length(d) \in Nat /\ Read(d) = Length(d)
      /\ Read(d)' = Length(d) + One(e.conn = d)
      /\ (InHand(d)' <=> e.conn = d)
  <2>1. pendingResp[d] # None => Len(pendingResp[d].fields) \in Nat
    BY DEF Types, DaemonType, Pending
  <2> QED BY <2>1, <1>1 DEF Length, Read, InHand, One
<1>3. \A i \in 0 .. n : /\ Ahead(resp_events', d, i) \in Nat
                        /\ Read(d) + Ahead(resp_events, d, i + 1) = Read(d)' + Ahead(resp_events', d, i)
  <2> SUFFICES ASSUME NEW i \in 0 .. n
               PROVE  /\ Ahead(resp_events', d, i) \in Nat
                      /\ Read(d) + Ahead(resp_events, d, i + 1)
                           = Read(d)' + Ahead(resp_events', d, i)
    OBVIOUS
  <2>1. Ahead(resp_events', d, i) \in Nat
    BY AheadType
  <2> QED BY <2>1, <1>1, <1>2 DEF One
<1>4. e.conn = d => e.ip = Addr[s] /\ e.value = <<s, Length(d) + 1>>
  <2>1. 1 \in 1 .. Len(resp_events)
    BY <1>1
  <2> QED BY <2>1, <1>1, <1>2 DEF UnderWay, One
<1>5. \A i \in 1 .. n : resp_events'[i].conn = d =>
        /\ resp_events'[i].ip = Addr[s]
        /\ resp_events'[i].value = <<s, Read(d)' + Ahead(resp_events', d, i)>>
  <2> SUFFICES ASSUME NEW i \in 1 .. n, resp_events'[i].conn = d
               PROVE  /\ resp_events'[i].ip = Addr[s]
                      /\ resp_events'[i].value = <<s, Read(d)' + Ahead(resp_events', d, i)>>
    OBVIOUS
  <2>1. i + 1 \in 1 .. Len(resp_events) /\ resp_events'[i] = resp_events[i + 1]
    BY <1>1
  <2> QED BY <2>1, <1>3 DEF UnderWay
<1>6. Read(d)' + Ahead(resp_events', d, n) = stream'[s].replied
  <2>1. n \in 0 .. n
    OBVIOUS
  <2> QED BY <2>1, <1>1, <1>3 DEF UnderWay
<1>7. pendingResp[d] = None => s \in FirstFieldUnderway(d)'
  <2> SUFFICES ASSUME pendingResp[d] = None PROVE s \in FirstFieldUnderway(d)'
    OBVIOUS
  <2>1. PICK i \in 1 .. n + 1 : resp_events[i].conn = d /\ resp_events[i].value = <<s, 1>>
    BY <1>1 DEF UnderWay, FirstFieldUnderway
  <2>2. CASE i = 1
    BY <2>1, <2>2, <1>1 DEF FirstFieldUnderway
  <2>3. CASE i # 1
    <3>1. i - 1 \in 1 .. n /\ (i - 1) + 1 = i
      BY <2>3
    <3>2. resp_events'[i - 1].conn = d /\ resp_events'[i - 1].value = <<s, 1>>
      BY <3>1, <2>1, <1>1
    <3> QED BY <3>1, <3>2, <1>1 DEF FirstFieldUnderway
  <2> QED BY <2>2, <2>3
<1>8. /\ pendingResp[d] # None =>
           /\ pendingResp[d].ip = Addr[s]
           /\ \A k \in 1 .. Length(d) : pendingResp[d].fields[k].value = <<s, k>>
      /\ InHand(d)' => rev'.ip = Addr[s] /\ rev'.field.value = <<s, Length(d) + 1>>
  BY <1>1, <1>2, <1>4 DEF UnderWay
<1> QED BY <1>1, <1>2, <1>5, <1>6, <1>7, <1>8 DEF UnderWay

\* The fields of responses move on, and stay with their objects.
LEMMA MovedResponses ==
  ASSUME Types, ResponseInv, UNCHANGED <<plan, stream, toEmit, responses, unclean>>,
         idle' \subseteq idle,
         \A c \in idle' : Length(c)' = Length(c),
         \A s, c : c \in Conns => (Waits(s, c)' <=> Waits(s, c)),
         \A s \in Streams, c \in Conns : UnderWay(s, c) => UnderWay(s, c)'
  PROVE  ResponseInv'
<1>1. \A s : Gone(s)' <=> Gone(s)
  BY DEF Gone, StreamsOf
<1>2. Together'
  <2> SUFFICES ASSUME NEW s \in Streams, NEW c \in Conns, s \notin unclean, Waits(s, c)
               PROVE  /\ UnderWay(s, c)' /\ stream[s].replied > 0
                      /\ stream[s].st = "reply" => stream[s].conn = c
                      /\ c \in idle' => Length(c)' = Len(plan[s].reply)
                      /\ \A d \in Conns : Waits(s, d) => d = c
                      /\ ~Gone(s)
    BY <1>1 DEF Together
  <2> QED BY DEF ResponseInv, Together
<1>3. Sending'
  <2>1. \A s \in Streams : stream[s].st = "reply" => stream[s].conn \in Conns
    BY DEF Types, NginxType, OwnObject, StreamRecord
  <2> QED BY <1>1, <2>1 DEF ResponseInv, Sending
<1>4. Flushed'
  BY FlushedKept DEF ResponseInv
<1> QED BY <1>2, <1>3, <1>4 DEF ResponseInv

LEMMA ReadRespResponses ==
  ASSUME Types, ResponseInv, ReadResp
  PROVE  ResponseInv'
<1>1. PICK e \in RespEvent, n \in Nat : Fetched(e, n)
  BY ReadRespEffect
<1>2. UNCHANGED <<plan, stream, toEmit, responses, unclean, idle, pendingResp>>
  BY <1>1 DEF Fetched
<1>3. \A c : Length(c)' = Length(c)
  BY <1>2 DEF Length
<1>4. \A s, c : c \in Conns => (Waits(s, c)' <=> Waits(s, c))
  BY <1>1, FetchedWaits
<1>5. \A s \in Streams, c \in Conns : UnderWay(s, c) => UnderWay(s, c)'
  BY <1>1, FetchedUnderWay
<1> QED BY <1>2, <1>3, <1>4, <1>5, MovedResponses

\* appendRespField puts field f under object c, after n others.
Stored(c, f, ip, n) ==
  /\ n \in Nat /\ n = Length(c)
  /\ rev # None /\ rev.conn = c /\ rev.field = f /\ rev.ip = ip
  /\ rev' = None /\ idle' = idle \ {c}
  /\ pendingResp'[c] # None /\ Len(pendingResp'[c].fields) = n + 1
  /\ pendingResp'[c].fields[n + 1] = f
  /\ pendingResp[c] # None =>
       /\ Len(pendingResp[c].fields) = n
       /\ \A k \in 1 .. n : pendingResp'[c].fields[k] = pendingResp[c].fields[k]
       /\ pendingResp'[c].ip = pendingResp[c].ip
  /\ pendingResp[c] = None => n = 0 /\ pendingResp'[c].ip = ip
  /\ pendingResp'[c].base = currentBase(c)
  /\ \A d \in Conns \ {c} : pendingResp'[d] = pendingResp[d]
  /\ UNCHANGED <<probeVars, pendingReq, dynamicTables, toEmit, requests, responses, unclean, shifted, shared>>

LEMMA AppendRespEffect ==
  ASSUME Types, appendRespField
  PROVE  \E c \in Conns, f \in RespField, ip \in Ips, n \in Nat : Stored(c, f, ip, n)
<1>1. rev # None /\ rev \in Reading
  BY DEF Types, DaemonType, appendRespField
<1>2. PICK c \in Conns, f \in RespField, ip \in Ips : c = rev.conn /\ f = rev.field /\ ip = rev.ip
  BY <1>1 DEF Reading
<1>3. PICK pr \in Pending :
        pr = IF pendingResp[c] = None
             THEN [ip |-> ip, base |-> Len(dynamicTables[c]), fields |-> <<>>] ELSE pendingResp[c]
  <2>1. Len(dynamicTables[c]) \in Nat /\ <<>> \in Seq(RespField)
    BY DEF Types, DaemonType
  <2>2. [ip |-> ip, base |-> Len(dynamicTables[c]), fields |-> <<>>] \in Pending
    BY <2>1 DEF Pending
  <2>3. pendingResp[c] \in Pending \cup {None}
    BY DEF Types, DaemonType
  <2> QED BY <2>2, <2>3
<1>4. PICK fs \in Seq(RespField) : fs = pr.fields
  BY DEF Pending
<1>5. PICK n \in Nat : n = Len(fs)
  BY <1>4
<1>6. PICK gs \in Seq(RespField) :
        /\ gs = Append(pr.fields, f) /\ Len(gs) = n + 1 /\ gs[n + 1] = f
        /\ \A k \in 1 .. n : gs[k] = fs[k]
  <2>1. Append(fs, f) \in Seq(RespField) /\ Len(Append(fs, f)) = n + 1 /\ Append(fs, f)[n + 1] = f
        /\ \A k \in 1 .. n : Append(fs, f)[k] = fs[k]
    BY <1>5
  <2> QED BY <2>1, <1>4
<1>7. PICK p \in Pending :
        p = [pr EXCEPT !.fields = gs] /\ p.fields = gs /\ p.ip = pr.ip /\ p.base = pr.base
  <2>1. [pr EXCEPT !.fields = gs] \in Pending
    BY <1>6 DEF Pending
  <2>2. /\ [pr EXCEPT !.fields = gs].fields = gs
        /\ [pr EXCEPT !.fields = gs].ip = pr.ip /\ [pr EXCEPT !.fields = gs].base = pr.base
    BY DEF Pending
  <2> QED BY <2>1, <2>2
<1>8. pendingResp' = [pendingResp EXCEPT ![c] = p] /\ idle' = idle \ {c} /\ rev' = None
  BY <1>2, <1>3, <1>6, <1>7 DEF appendRespField
<1>9. pendingResp'[c] = p /\ \A d \in Conns \ {c} : pendingResp'[d] = pendingResp[d]
  BY <1>8 DEF Types, DaemonType
<1>10. p # None
  BY <1>7, NoneAssumption
<1>11. CASE pendingResp[c] = None
  <2>1. /\ pr.ip = ip /\ pr.base = Len(dynamicTables[c]) /\ pr.fields = <<>>
    BY <1>3, <1>11
  <2>2. n = 0
    BY <2>1, <1>4, <1>5
  <2>3. currentBase(c) = Len(dynamicTables[c]) /\ Length(c) = 0
    BY <1>11 DEF currentBase, Length
  <2>4. Stored(c, f, ip, n)
    BY <1>1, <1>2, <1>6, <1>7, <1>8, <1>9, <1>10, <1>11, <2>1, <2>2, <2>3
       DEF Stored, appendRespField
  <2> QED BY <2>4
<1>12. CASE pendingResp[c] # None
  <2>1. pr = pendingResp[c] /\ Len(pendingResp[c].fields) = n
    BY <1>3, <1>4, <1>5, <1>12
  <2>2. currentBase(c) = pr.base /\ Length(c) = n
    BY <2>1, <1>12 DEF currentBase, Length
  <2>3. \A k \in 1 .. n : gs[k] = pendingResp[c].fields[k]
    BY <2>1, <1>4, <1>6
  <2>4. /\ pendingResp'[c].fields = gs /\ pendingResp'[c].ip = pendingResp[c].ip
        /\ pendingResp'[c].base = currentBase(c)
    BY <1>7, <1>9, <2>1, <2>2
  <2>5. UNCHANGED <<probeVars, pendingReq, dynamicTables, toEmit, requests, responses, unclean, shifted, shared>>
    BY DEF appendRespField
  <2>6. Stored(c, f, ip, n)
    BY <1>1, <1>2, <1>5, <1>6, <1>8, <1>9, <1>10, <1>12, <2>1, <2>2, <2>3, <2>4, <2>5 DEF Stored
  <2> QED BY <2>6
<1> QED BY <1>11, <1>12

LEMMA StoredResponses ==
  ASSUME Types, ResponseInv, NEW c \in Conns, NEW f \in RespField, NEW ip \in Ips, NEW n \in Nat,
         Stored(c, f, ip, n)
  PROVE  ResponseInv'
<1>1. UNCHANGED <<plan, stream, resp_events, toEmit, responses, unclean>>
  BY DEF Stored, probeVars
<1>2. /\ rev # None /\ rev.conn = c /\ rev.field = f /\ rev.ip = ip /\ rev' = None
      /\ idle' = idle \ {c}
      /\ n \in Nat /\ n = Length(c) /\ Length(c)' = n + 1 /\ InHand(c)
      /\ \A d : ~InHand(d)'
      /\ \A d \in Conns \ {c} : pendingResp'[d] = pendingResp[d] /\ ~InHand(d)
  BY DEF Stored, InHand, Length
<1>3. \A d \in Conns \ {c} : Length(d)' = Length(d) /\ Read(d)' = Read(d)
  BY <1>2 DEF Length, Read, One
<1>4. Read(c) = n + 1 /\ Read(c)' = n + 1
  BY <1>2 DEF Read, One
<1>5. PICK p :
        /\ p = pendingResp'[c] /\ p # None /\ Len(p.fields) = n + 1 /\ p.fields[n + 1] = f
        /\ pendingResp[c] # None =>
             /\ Len(pendingResp[c].fields) = n
             /\ \A k \in 1 .. n : p.fields[k] = pendingResp[c].fields[k]
             /\ p.ip = pendingResp[c].ip
        /\ pendingResp[c] = None => n = 0 /\ p.ip = ip
  BY DEF Stored
<1>6. ASSUME NEW s, NEW d \in Conns PROVE Waits(s, d)' <=> Waits(s, d)
  <2>1. CASE d # c
    BY <2>1, <1>1, <1>2 DEF Waits, StreamsOf
  <2>2. CASE d = c
    <3>1. s \in StreamsOf(p.fields)
            <=> f.value[1] = s \/ (pendingResp[c] # None /\ s \in StreamsOf(pendingResp[c].fields))
      <4>1. s \in StreamsOf(p.fields) <=> \E k \in 1 .. n + 1 : p.fields[k].value[1] = s
        BY <1>5 DEF StreamsOf
      <4>2. pendingResp[c] # None =>
              (s \in StreamsOf(pendingResp[c].fields) <=> \E k \in 1 .. n : p.fields[k].value[1] = s)
        BY <1>5 DEF StreamsOf
      <4>3. (\E k \in 1 .. n + 1 : p.fields[k].value[1] = s)
              <=> f.value[1] = s \/ \E k \in 1 .. n : p.fields[k].value[1] = s
        <5>1. \A k \in 1 .. n + 1 : k \in 1 .. n \/ k = n + 1
          BY <1>2
        <5>2. \A k \in 1 .. n : k \in 1 .. n + 1
          BY <1>2
        <5>3. n + 1 \in 1 .. n + 1
          BY <1>2
        <5> QED BY <5>1, <5>2, <5>3, <1>5
      <4>4. pendingResp[c] = None => ~\E k \in 1 .. n : TRUE
        BY <1>5
      <4> QED BY <4>1, <4>2, <4>3, <4>4
    <3>2. StreamsOf(pendingResp'[c].fields) = StreamsOf(p.fields)
      BY <1>5 DEF StreamsOf
    <3>3. Waits(s, c)' <=> \/ \E i \in 1 .. Len(resp_events) :
                                resp_events[i].conn = c /\ resp_events[i].value[1] = s
                          \/ s \in StreamsOf(p.fields)
      BY <1>1, <1>2, <1>5 DEF Waits, StreamsOf
    <3> QED BY <3>1, <3>3, <2>2, <1>2 DEF Waits
  <2> QED BY <2>1, <2>2
<1>7. ASSUME NEW s \in Streams, NEW d \in Conns, UnderWay(s, d) PROVE UnderWay(s, d)'
  <2>1. CASE d # c
    BY <2>1, <1>1, <1>2, <1>3, <1>7 DEF UnderWay, FirstFieldUnderway, InHand
  <2>2. CASE d = c
    <3>1. /\ pendingResp[c] # None =>
               /\ pendingResp[c].ip = Addr[s]
               /\ \A k \in 1 .. n : pendingResp[c].fields[k].value = <<s, k>>
          /\ ip = Addr[s] /\ f.value = <<s, n + 1>>
          /\ \A i \in 1 .. Len(resp_events) :
               resp_events[i].conn = c =>
                 /\ resp_events[i].ip = Addr[s]
                 /\ resp_events[i].value = <<s, n + 1 + Ahead(resp_events, c, i)>>
          /\ n + 1 + Ahead(resp_events, c, Len(resp_events)) = stream[s].replied
      BY <2>2, <1>2, <1>4, <1>7 DEF UnderWay
    <3>2. p.ip = Addr[s] /\ \A k \in 1 .. n + 1 : p.fields[k].value = <<s, k>>
      <4>1. \A k \in 1 .. n + 1 : k \in 1 .. n \/ k = n + 1
        BY <1>2
      <4>2. ASSUME NEW k \in 1 .. n PROVE p.fields[k].value = <<s, k>>
        <5>1. pendingResp[c] # None
          BY <1>2, <1>5
        <5> QED BY <5>1, <3>1, <1>5
      <4>3. p.fields[n + 1].value = <<s, n + 1>>
        BY <3>1, <1>5
      <4>4. p.ip = Addr[s]
        BY <3>1, <1>5
      <4> QED BY <4>1, <4>2, <4>3, <4>4
    <3> QED BY <3>1, <3>2, <2>2, <1>1, <1>2, <1>4, <1>5 DEF UnderWay
  <2> QED BY <2>1, <2>2
<1>8. idle' \subseteq idle /\ \A d \in idle' : d \in Conns \ {c}
  BY <1>2 DEF Types, DaemonType
<1> QED BY <1>1, <1>3, <1>6, <1>7, <1>8, MovedResponses

LEMMA AppendRespResponses ==
  ASSUME Types, ResponseInv, appendRespField
  PROVE  ResponseInv'
BY AppendRespEffect, StoredResponses

LEMMA StreamsOfType ==
  ASSUME NEW fs \in Seq(RespField)
  PROVE  StreamsOf(fs) \subseteq Streams
<1> SUFFICES ASSUME NEW i \in 1 .. Len(fs) PROVE fs[i].value[1] \in Streams
  BY DEF StreamsOf
<1>1. fs[i] \in RespField
  OBVIOUS
<1>2. fs[i].value \in Fields
  BY <1>1 DEF RespField
<1> QED BY <1>2, FieldParts

LEMMA SomeAhead ==
  ASSUME NEW ring, NEW c, NEW n \in Nat, Ahead(ring, c, n) = 0, NEW i \in 1 .. n
  PROVE  ring[i].conn # c
<1>1. IsFiniteSet(OfConn(ring, c, n)) /\ Cardinality(OfConn(ring, c, n)) = 0
  BY AheadType DEF Ahead
<1>2. OfConn(ring, c, n) = {}
  BY <1>1, FS_EmptySet
<1> QED BY <1>2 DEF OfConn

\* A response that is idle and clean has all its fields.
LEMMA IdleIsWhole ==
  ASSUME Types, ResponseInv, NEW s \in Streams, NEW c \in Conns, s \notin unclean, Waits(s, c), c \in idle
  PROVE  /\ WholeReply(pendingResp[c], s) /\ stream[s].replied = Len(plan[s].reply)
         /\ ~InHand(c) /\ \A i \in 1 .. Len(resp_events) : resp_events[i].conn # c
<1>1. /\ UnderWay(s, c) /\ Length(c) = Len(plan[s].reply) /\ stream[s].replied <= Len(plan[s].reply)
  BY DEF ResponseInv, Together, Sending
<1>2. pendingResp[c] # None /\ pendingResp[c] \in Pending
  BY DEF Types, DaemonType
<1>3. PICK n \in Nat : n = Len(resp_events)
  BY DEF Types, RingType
<1>4. PICK a \in Nat : a = Ahead(resp_events, c, n)
  BY AheadType
<1>5. PICK k \in Nat, r \in Nat : k = Len(plan[s].reply) /\ r = stream[s].replied
  BY PlanType DEF Types, StreamRecord
<1>6. k + One(InHand(c)) + a = r /\ r <= k
  BY <1>1, <1>3, <1>4, <1>5 DEF UnderWay, Read
<1>7. ~InHand(c) /\ a = 0 /\ r = k
  BY <1>6 DEF One
<1>8. \A i \in 1 .. n : resp_events[i].conn # c
  BY <1>4, <1>7, SomeAhead
<1>9. WholeReply(pendingResp[c], s)
  BY <1>1, <1>2 DEF UnderWay, WholeReply, Length
<1> QED BY <1>3, <1>5, <1>7, <1>8, <1>9

LEMMA FlushTakeResponses ==
  ASSUME Types, ResponseInv, FlushTake
  PROVE  ResponseInv'
<1>1. UNCHANGED <<plan, stream, resp_events, rev, responses, unclean>>
  BY DEF FlushTake, probeVars
<1>2. /\ toEmit = {} /\ toEmit' = {pendingResp[c] : c \in idle} /\ idle' = {}
      /\ \A c \in idle : pendingResp'[c] = None
      /\ \A c \in Conns \ idle : pendingResp'[c] = pendingResp[c]
      /\ \A c \in idle : c \in Conns /\ pendingResp[c] # None
                         /\ StreamsOf(pendingResp[c].fields) \subseteq Streams
  <2>1. \A c \in idle : c \in Conns /\ pendingResp[c] # None
    BY DEF Types, DaemonType
  <2>2. ASSUME NEW c \in idle PROVE StreamsOf(pendingResp[c].fields) \subseteq Streams
    <3>1. pendingResp[c] \in Pending
      BY <2>1 DEF Types, DaemonType
    <3>2. pendingResp[c].fields \in Seq(RespField)
      BY <3>1 DEF Pending
    <3> QED BY <3>2, StreamsOfType
  <2> QED BY <2>1, <2>2 DEF FlushTake
<1>3. ASSUME NEW s, NEW c \in Conns, Waits(s, c)'
      PROVE  /\ Waits(s, c)
             /\ c \in idle => \/ InHand(c)
                              \/ \E i \in 1 .. Len(resp_events) : resp_events[i].conn = c
  <2>1. CASE c \in idle
    BY <2>1, <1>1, <1>2, <1>3 DEF Waits, InHand
  <2>2. CASE c \notin idle
    BY <2>2, <1>1, <1>2, <1>3 DEF Waits, InHand, StreamsOf
  <2> QED BY <2>1, <2>2
<1>4. ASSUME NEW s, NEW c \in Conns \ idle, Waits(s, c) PROVE Waits(s, c)'
  BY <1>1, <1>2, <1>4 DEF Waits, InHand, StreamsOf
<1>5. ASSUME NEW s \in Streams \ unclean, NEW c \in Conns, Waits(s, c)' PROVE c \notin idle
  BY <1>3, <1>5, IdleIsWhole
<1>6. \A s : \A c \in idle : s \in StreamsOf(pendingResp[c].fields) => Waits(s, c)
  BY <1>2 DEF Waits
<1>7. ASSUME NEW s, Gone(s)'
      PROVE  Gone(s) \/ \E c \in idle : s \in StreamsOf(pendingResp[c].fields)
  <2>1. \/ \E pr \in toEmit' : s \in StreamsOf(pr.fields)
        \/ \E i \in 1 .. Len(responses) : s \in StreamsOf(responses[i].fields)
    BY <1>1, <1>7 DEF Gone, StreamsOf
  <2> QED BY <2>1, <1>2 DEF Gone
<1>8. Together'
  <2> SUFFICES ASSUME NEW s \in Streams, NEW c \in Conns, s \notin unclean, Waits(s, c)'
               PROVE  /\ UnderWay(s, c)' /\ stream[s].replied > 0
                      /\ stream[s].st = "reply" => stream[s].conn = c
                      /\ \A d \in Conns : Waits(s, d)' => d = c
                      /\ ~Gone(s)'
    BY <1>1, <1>2 DEF Together
  <2>1. c \notin idle /\ Waits(s, c)
    BY <1>3, <1>5
  <2>2. /\ UnderWay(s, c) /\ stream[s].replied > 0
        /\ stream[s].st = "reply" => stream[s].conn = c
        /\ \A d \in Conns : Waits(s, d) => d = c
        /\ ~Gone(s)
    BY <2>1 DEF ResponseInv, Together
  <2>3. ~Gone(s)'
    BY <2>1, <2>2, <1>2, <1>6, <1>7
  <2>4. UnderWay(s, c)'
    BY <2>1, <2>2, <1>1, <1>2 DEF UnderWay, Length, Read, InHand, FirstFieldUnderway
  <2> QED BY <2>2, <2>3, <2>4, <1>3
<1>9. Sending'
  <2> SUFFICES ASSUME NEW s \in Streams, NEW c, c = stream'[s].conn
               PROVE  /\ stream[s].replied <= Len(plan[s].reply)
                      /\ s \notin unclean /\ stream[s].st = "reply"
                           /\ stream[s].replied \in 1 .. Len(plan[s].reply) - 1
                           => Waits(s, c)'
                      /\ s \notin unclean /\ Gone(s)' => stream[s].replied = Len(plan[s].reply)
    BY <1>1 DEF Sending
  <2>1. /\ stream[s].replied <= Len(plan[s].reply)
        /\ s \notin unclean /\ stream[s].st = "reply"
             /\ stream[s].replied \in 1 .. Len(plan[s].reply) - 1
             => Waits(s, stream[s].conn)
        /\ s \notin unclean /\ Gone(s) => stream[s].replied = Len(plan[s].reply)
    BY DEF ResponseInv, Sending
  <2>2. ASSUME s \notin unclean, Gone(s)' PROVE stream[s].replied = Len(plan[s].reply)
    BY <2>1, <2>2, <1>2, <1>6, <1>7, IdleIsWhole
  <2>3. ASSUME s \notin unclean, stream[s].st = "reply",
               stream[s].replied \in 1 .. Len(plan[s].reply) - 1
        PROVE  Waits(s, c)'
    <3>1. c \in Conns /\ c = stream[s].conn
      BY <2>3, <1>1 DEF Types, NginxType, OwnObject, StreamRecord
    <3>2. Waits(s, c) /\ c \notin idle
      <4>1. stream[s].replied # Len(plan[s].reply)
        BY <2>3, PlanType DEF Types
      <4> QED BY <4>1, <3>1, <2>1, <2>3, IdleIsWhole
    <3> QED BY <3>1, <3>2, <1>4
  <2> QED BY <2>1, <2>2, <2>3
<1>10. Flushed'
  <2>1. ASSUME NEW c \in idle, NEW s \in StreamsOf(pendingResp[c].fields) \ unclean
        PROVE  /\ s \in Streams /\ c \in Conns /\ Waits(s, c) /\ ~Gone(s)
               /\ WholeReply(pendingResp[c], s)
               /\ \A d \in Conns : Waits(s, d) => d = c
    BY <1>2, <1>6, IdleIsWhole DEF ResponseInv, Together
  <2>2. \A pr \in toEmit' : \A s \in StreamsOf(pr.fields) \ unclean : WholeReply(pr, s)
    BY <2>1, <1>2
  <2>3. \A p, q \in toEmit' :
          p # q => StreamsOf(p.fields) \cap StreamsOf(q.fields) \subseteq unclean
    <3> SUFFICES ASSUME NEW c \in idle, NEW d \in idle,
                        NEW s \in StreamsOf(pendingResp[c].fields) \ unclean,
                        s \in StreamsOf(pendingResp[d].fields)
                 PROVE  c = d
      BY <1>2
    <3> QED BY <2>1
  <2>4. \A p \in toEmit', i \in 1 .. Len(responses) :
          StreamsOf(p.fields) \cap StreamsOf(responses[i].fields) \subseteq unclean
    <3> SUFFICES ASSUME NEW c \in idle, NEW i \in 1 .. Len(responses),
                        NEW s \in StreamsOf(pendingResp[c].fields) \ unclean,
                        s \in StreamsOf(responses[i].fields)
                 PROVE  FALSE
      BY <1>2
    <3> QED BY <2>1 DEF Gone
  <2>5. /\ \A i \in 1 .. Len(responses) : \A s \in StreamsOf(responses[i].fields) \ unclean :
             WholeReply(responses[i], s)
        /\ \A i, j \in 1 .. Len(responses) :
             i # j => StreamsOf(responses[i].fields) \cap StreamsOf(responses[j].fields) \subseteq unclean
    BY DEF ResponseInv, Flushed
  <2>6. (\A fs : StreamsOf(fs)' = StreamsOf(fs)) /\ \A pr, s : WholeReply(pr, s)' <=> WholeReply(pr, s)
    BY <1>1 DEF StreamsOf, WholeReply
  <2> QED BY <2>2, <2>3, <2>4, <2>5, <2>6, <1>1 DEF Flushed
<1> QED BY <1>8, <1>9, <1>10 DEF ResponseInv

LEMMA FlushEmitResponses ==
  ASSUME Types, ResponseInv, NEW pr \in toEmit, FlushEmit(pr)
  PROVE  ResponseInv'
<1>1. UNCHANGED <<plan, stream, resp_events, rev, pendingResp, idle, unclean>>
  BY DEF FlushEmit, probeVars
<1>2. PICK n \in Nat, e \in Response :
        /\ e = [ip |-> pr.ip, fields |-> pr.fields]
        /\ n = Len(responses) /\ Len(responses') = n + 1 /\ responses'[n + 1] = e
        /\ \A i \in 1 .. n : responses'[i] = responses[i]
  <2>1. pr \in Pending /\ responses \in Seq(Response)
    BY DEF Types, DaemonType
  <2>2. PICK e \in Response : e = [ip |-> pr.ip, fields |-> pr.fields]
    BY <2>1 DEF Pending, Response
  <2>3. responses' = Append(responses, e)
    BY <2>2 DEF FlushEmit
  <2> QED BY <2>1, <2>2, <2>3
<1>3. e.ip = pr.ip /\ e.fields = pr.fields /\ toEmit' = toEmit \ {pr}
  BY <1>2 DEF FlushEmit
<1>4. /\ \A fs : StreamsOf(fs)' = StreamsOf(fs)
      /\ \A s, c : Waits(s, c)' <=> Waits(s, c)
      /\ \A c : Length(c)' = Length(c)
  BY <1>1 DEF StreamsOf, Waits, InHand, Length
<1>5. \A i \in 1 .. n + 1 : i \in 1 .. n \/ i = n + 1
  OBVIOUS
<1>6. ASSUME NEW s, Gone(s)' PROVE Gone(s)
  <2>1. \/ \E p \in toEmit' : s \in StreamsOf(p.fields)
        \/ \E i \in 1 .. n + 1 : s \in StreamsOf(responses'[i].fields)
    BY <1>2, <1>6 DEF Gone, StreamsOf
  <2> QED BY <2>1, <1>2, <1>3, <1>5 DEF Gone
<1>7. ASSUME NEW s \in Streams, NEW c \in Conns, UnderWay(s, c) PROVE UnderWay(s, c)'
  BY <1>1, <1>7 DEF UnderWay, Length, Read, InHand, FirstFieldUnderway
<1>8. Together'
  <2> SUFFICES ASSUME NEW s \in Streams, NEW c \in Conns, s \notin unclean, Waits(s, c)
               PROVE  /\ UnderWay(s, c)' /\ stream[s].replied > 0
                      /\ stream[s].st = "reply" => stream[s].conn = c
                      /\ c \in idle => Length(c) = Len(plan[s].reply)
                      /\ \A d \in Conns : Waits(s, d) => d = c
                      /\ ~Gone(s)'
    BY <1>1, <1>4 DEF Together
  <2> QED BY <1>6, <1>7 DEF ResponseInv, Together
<1>9. Sending'
  BY <1>1, <1>4, <1>6 DEF ResponseInv, Sending
<1>10. Flushed'
  <2>1. /\ \A p \in toEmit : \A s \in StreamsOf(p.fields) \ unclean : WholeReply(p, s)
        /\ \A i \in 1 .. n : \A s \in StreamsOf(responses[i].fields) \ unclean :
             WholeReply(responses[i], s)
        /\ \A p, q \in toEmit :
             p # q => StreamsOf(p.fields) \cap StreamsOf(q.fields) \subseteq unclean
        /\ \A p \in toEmit, i \in 1 .. n :
             StreamsOf(p.fields) \cap StreamsOf(responses[i].fields) \subseteq unclean
        /\ \A i, j \in 1 .. n :
             i # j => StreamsOf(responses[i].fields) \cap StreamsOf(responses[j].fields) \subseteq unclean
    BY <1>2 DEF ResponseInv, Flushed
  <2>2. \A s : WholeReply(e, s) <=> WholeReply(pr, s)
    BY <1>3 DEF WholeReply
  <2>3. \A i \in 1 .. n + 1 : \A s \in StreamsOf(responses'[i].fields) \ unclean :
          WholeReply(responses'[i], s)
    BY <2>1, <2>2, <1>2, <1>3, <1>5
  <2>4. \A p \in toEmit', i \in 1 .. n + 1 :
          StreamsOf(p.fields) \cap StreamsOf(responses'[i].fields) \subseteq unclean
    BY <2>1, <1>2, <1>3, <1>5
  <2>5. \A i, j \in 1 .. n + 1 : i # j =>
          StreamsOf(responses'[i].fields) \cap StreamsOf(responses'[j].fields) \subseteq unclean
    BY <2>1, <1>2, <1>3, <1>5
  <2>6. \A x, s : WholeReply(x, s)' <=> WholeReply(x, s)
    BY <1>1 DEF WholeReply
  <2> QED BY <2>1, <2>3, <2>4, <2>5, <2>6, <1>1, <1>2, <1>3, <1>4 DEF Flushed
<1> QED BY <1>8, <1>9, <1>10 DEF ResponseInv

\* A step of nginx that encodes nothing.
LEMMA NginxResponses ==
  ASSUME Types, ResponseInv, unclean \subseteq unclean',
         UNCHANGED <<plan, resp_events, daemonVars>>,
         NEW s \in Streams, Only(s), stream'[s].replied = stream[s].replied,
         stream'[s].st = "reply" /\ stream'[s].replied > 0 =>
           stream[s].st = "reply" /\ stream'[s].conn = stream[s].conn
  PROVE  ResponseInv'
<1>1. \A r \in Streams : /\ stream'[r].replied = stream[r].replied
                         /\ stream'[r].st = "reply" /\ stream'[r].replied > 0 =>
                              stream[r].st = "reply" /\ stream'[r].conn = stream[r].conn
  BY DEF Only
<1>2. UNCHANGED <<plan, resp_events, rev, pendingResp, idle, toEmit, responses>>
  BY DEF daemonVars
<1>3. \A r \in Streams, c \in Conns :
        r \notin unclean' /\ Waits(r, c) /\ c \in idle' => Length(c) = Len(plan[r].reply)
  BY <1>2 DEF ResponseInv, Together
<1> QED BY <1>1, <1>2, <1>3, QuietResponses

LEMMA ParseResponses ==
  ASSUME Types, ResponseInv, NEW w \in Workers, Parse(w), UNCHANGED daemonVars
  PROVE  ResponseInv'
<1>1. ASSUME NEW s \in Streams, NEW c \in Conns, entry_parse_headers(w, s, c) PROVE ResponseInv'
  <2>1. Only(s) /\ SameProgress(s) /\ stream'[s].st = "headers"
    BY <1>1, EntryStream DEF Types
  <2>2. UNCHANGED <<plan, resp_events, unclean>>
    BY <1>1 DEF Parse, Enter, Return, entry_parse_headers
  <2> QED BY <2>1, <2>2, NginxResponses DEF SameProgress
<1>2. ASSUME ret_parse_headers_again(w) PROVE ResponseInv'
  <2>1. UNCHANGED <<plan, stream, resp_events, unclean, rev, pendingResp, idle, toEmit, responses>>
    BY <1>2 DEF Parse, Enter, Return, ret_parse_headers_again, daemonVars
  <2>2. \A r \in Streams, c \in Conns :
          r \notin unclean' /\ Waits(r, c) /\ c \in idle' => Length(c) = Len(plan[r].reply)
    BY <2>1 DEF ResponseInv, Together
  <2> QED BY <2>1, <2>2, QuietResponses
<1>3. ASSUME ret_parse_headers_error(w) PROVE ResponseInv'
  <2>1. PICK s \in Streams : stream' = Ended(s)
    BY <1>3, ParsedIsOwn DEF ret_parse_headers_error, Types
  <2>2. Only(s) /\ SameProgress(s) /\ stream'[s].st = "closed"
    BY <2>1, EndedStream DEF Types
  <2>3. UNCHANGED <<plan, resp_events, unclean>>
    BY <1>3 DEF Parse, Enter, Return, ret_parse_headers_error
  <2> QED BY <2>2, <2>3, NginxResponses DEF SameProgress
<1>4. ASSUME NEW rc \in {"ok", "done"}, ret_parse_headers(w, rc) PROVE ResponseInv'
  <2>1. PICK s \in Streams : s = Parsed(w) /\ stream[s].st = "headers"
    BY <1>4, ReturnEffect
  <2>2. Only(s) /\ stream'[s].replied = stream[s].replied
    BY <2>1, <1>4, ReturnEffect
  <2>3. stream[s].replied = 0
    BY <2>1 DEF Types, OwnObject
  <2>4. UNCHANGED <<plan, resp_events, unclean>>
    BY <1>4 DEF Parse, Enter, Return, ret_parse_headers
  <2> QED BY <2>2, <2>3, <2>4, NginxResponses
<1> QED BY <1>1, <1>2, <1>3, <1>4 DEF Parse, Enter, Return

LEMMA TableOpResponses ==
  ASSUME Types, ResponseInv, NEW w \in Workers, NEW s \in Streams, TableOp(w, s), UNCHANGED daemonVars
  PROVE  ResponseInv'
<1>1. entry_table(w, s) /\ UNCHANGED <<plan, resp_events, unclean>>
  BY DEF TableOp, entry_table
<1>2. /\ Only(s) /\ stream'[s].replied = stream[s].replied
      /\ stream'[s].st = stream[s].st /\ stream'[s].conn = stream[s].conn
  BY <1>1, InsertEffect
<1> QED BY <1>1, <1>2, NginxResponses

LEMMA CloseResponses ==
  ASSUME Types, ResponseInv, NEW w \in Workers, NEW s \in Streams, Close(w, s), UNCHANGED daemonVars
  PROVE  ResponseInv'
<1>1. /\ stream' = Ended(s) /\ UNCHANGED <<plan, resp_events>> /\ unclean \subseteq unclean'
  BY DEF Close, CloseStream
<1>2. Only(s) /\ SameProgress(s) /\ stream'[s].st = "closed"
  BY <1>1, EndedStream DEF Types
<1> QED BY <1>1, <1>2, NginxResponses DEF SameProgress

LEMMA InitResponses == Init => ResponseInv
<1> SUFFICES ASSUME Init PROVE ResponseInv
  OBVIOUS
<1>1. /\ resp_events = <<>> /\ rev = None /\ toEmit = {} /\ responses = <<>>
      /\ \A c \in Conns : pendingResp[c] = None
      /\ \A s \in Streams : stream[s].st = "new" /\ stream[s].replied = 0 /\ 0 <= Len(plan[s].reply)
  <2>1. \A s \in Streams : Len(plan[s].reply) \in Nat
    BY H3Assumption DEF Init, InitProbes
  <2> QED BY <2>1 DEF Init, InitProbes, NewStream
<1>2. \A s, c : c \in Conns => ~Waits(s, c)
  BY <1>1 DEF Waits, InHand
<1>3. \A s : ~Gone(s)
  BY <1>1 DEF Gone
<1>4. Flushed
  BY <1>1 DEF Flushed
<1> QED BY <1>1, <1>2, <1>3, <1>4 DEF ResponseInv, Together, Sending

LEMMA ResponsesStep == Types /\ ResponseInv /\ [Next]_vars => ResponseInv'
<1> SUFFICES ASSUME Types, ResponseInv, [Next]_vars PROVE ResponseInv'
  OBVIOUS
<1>1. ASSUME NEW w \in Workers, Nginx(w) PROVE ResponseInv'
  BY <1>1, ParseResponses, EncodeResponses, TableOpResponses, CloseResponses, Zenon DEF Nginx
<1>2. ASSUME UNCHANGED <<plan, stream, resp_events, unclean, rev, pendingResp, idle, toEmit, responses>>
      PROVE  ResponseInv'
  <2>1. \A r \in Streams, c \in Conns :
          r \notin unclean' /\ Waits(r, c) /\ c \in idle' => Length(c) = Len(plan[r].reply)
    BY <1>2 DEF ResponseInv, Together
  <2> QED BY <1>2, <2>1, QuietResponses
<1>3. CASE ReadReq \/ ReadTable
  BY <1>2, <1>3 DEF ReadReq, ReadTable
<1>4. CASE UNCHANGED vars
  BY <1>2, <1>4 DEF vars, probeVars, daemonVars
<1> QED BY <1>1, <1>3, <1>4, ReadRespResponses, AppendRespResponses, ElapseResponses,
           FlushTakeResponses, FlushEmitResponses DEF Next

(* However the reads, the pauses and the flushes interleave with nginx: a    *)
(* response that is not unclean is emitted once, with all of its fields in   *)
(* order and the address of its own client (flushIdleResponses,              *)
(* appendRespField).                                                         *)
THEOREM ResponsesAreWhole == Spec => []ResponsesWhole
<1>1. ResponseInv => ResponsesWhole
  <2> SUFFICES ASSUME ResponseInv PROVE ResponsesWhole
    OBVIOUS
  <2>1. ASSUME NEW i \in 1 .. Len(responses), NEW s \in StreamsOf(responses[i].fields) \ unclean
        PROVE  /\ responses[i].ip = Addr[s]
               /\ [k \in 1 .. Len(responses[i].fields) |-> responses[i].fields[k].value]
                    = [k \in 1 .. Len(plan[s].reply) |-> <<s, k>>]
    <3>1. WholeReply(responses[i], s)
      BY DEF ResponseInv, Flushed
    <3> QED BY <3>1 DEF WholeReply
  <2> QED BY <2>1 DEF ResponseInv, Flushed, ResponsesWhole
<1> QED BY <1>1, InitTypes, TypesStep, InitResponses, ResponsesStep, PTL DEF Spec

-----------------------------------------------------------------------------
(* The names. What a stream has put in the table of its object is at the    *)
(* end of the table, and of the copy when the events on their way have come *)
(* (a of them), whatever was lost before. So the entries that its response  *)
(* refers to are found, and the base of a pending response keeps them so.   *)

Arrived(t, copy, a, n) ==
  \A x \in 0 .. n - a - 1 : x < Len(copy) /\ copy[Len(copy) - x] = t[Len(t) - a - x]
WithinOwn(e, q, n) ==
  e.op = "insert" \/ (e.op = "ref_insert" /\ ~e.dynamic) \/ e.index + 1 + q < n
Coming(t, ring, c, a, n) ==
  \A i \in 1 .. Len(ring) :
    LET q == a - Ahead(ring, c, i) IN
    ring[i].conn = c /\ q < n => Brings(ring[i], t, Len(t) - q) /\ WithinOwn(ring[i], q, n)

\* What stream s has inserted, under object c.
OwnEntries(s, c) ==
  LET a == Ahead(table_events, c, Len(table_events)) IN
  /\ Arrived(table[s], dynamicTables[c], a, stream[s].inserted)
  /\ Coming(table[s], table_events, c, a, stream[s].inserted)

Timely(s) == s \notin unclean \cup shifted \cup shared \cup lostInserts

\* The entries that stream s refers to, and what the daemon takes them for.
Found(s, c) ==
  \A k \in 1 .. Len(plan[s].reply) :
    LET x == plan[s].reply[k].index IN
    plan[s].reply[k].dynamic =>
      /\ stream[s].base - x \in 1 .. Len(table[s])
      /\ currentBase(c) - x \in 1 .. Len(dynamicTables[c])
      /\ dynamicTables[c][currentBase(c) - x] = table[s][stream[s].base - x]

\* What event e, with a field of stream s, means.
Refers(s, c, e) ==
  \E k \in 1 .. Len(plan[s].reply) :
    /\ e.dynamic = plan[s].reply[k].dynamic /\ e.index = plan[s].reply[k].index
    /\ e.means = IF e.dynamic THEN table[s][stream[s].base - e.index] ELSE StaticName(e.index)

Suffixes ==
  \A s \in Streams \ (lostInserts \cup shared) :
    stream[s].conn # None => OwnEntries(s, stream[s].conn)

Referred ==
  \A s \in Streams, c \in Conns :
    Timely(s) /\ Waits(s, c) =>
      /\ pendingResp[c] = None => \A i \in 1 .. Len(table_events) : table_events[i].conn # c
      /\ Found(s, c)
      /\ \A i \in 1 .. Len(resp_events) :
           resp_events[i].conn = c => Refers(s, c, resp_events[i])

Right(f) == Timely(f.value[1]) => f.name = f.means
Resolved ==
  /\ rev # None => Right(rev.field)
  /\ \A c \in Conns : pendingResp[c] # None =>
       \A k \in 1 .. Len(pendingResp[c].fields) : Right(pendingResp[c].fields[k])
  /\ \A pr \in toEmit : \A k \in 1 .. Len(pr.fields) : Right(pr.fields[k])
  /\ \A i \in 1 .. Len(responses) : \A k \in 1 .. Len(responses[i].fields) :
       Right(responses[i].fields[k])

NameInv == Suffixes /\ Referred /\ Resolved

LEMMA AheadWithin ==
  ASSUME NEW ring, NEW c, NEW n \in Nat, NEW i \in 0 .. n
  PROVE  Ahead(ring, c, n) - Ahead(ring, c, i) \in Nat
<1>1. OfConn(ring, c, i) \subseteq OfConn(ring, c, n)
  BY DEF OfConn
<1>2. Ahead(ring, c, i) \in Nat /\ Ahead(ring, c, n) \in Nat /\ IsFiniteSet(OfConn(ring, c, n))
  BY AheadType
<1>3. Ahead(ring, c, i) <= Ahead(ring, c, n)
  BY <1>1, <1>2, FS_Subset DEF Ahead
<1> QED BY <1>2, <1>3

\* Nothing has been inserted.
LEMMA NoEntries ==
  ASSUME NEW t, NEW copy, NEW S, NEW ring \in Seq(S), NEW c, NEW a, a = Ahead(ring, c, Len(ring))
  PROVE  Arrived(t, copy, a, 0) /\ Coming(t, ring, c, a, 0)
<1>1. a \in Nat
  BY AheadType
<1>2. Arrived(t, copy, a, 0)
  BY <1>1 DEF Arrived
<1>3. \A i \in 1 .. Len(ring) : a - Ahead(ring, c, i) \in Nat
  BY AheadWithin
<1>4. \A i \in 1 .. Len(ring) : ~(a - Ahead(ring, c, i) < 0)
  BY <1>3
<1> QED BY <1>2, <1>4 DEF Coming

\* The copy does not change, and the table gets entry x.
LEMMA ArrivedAfterInsert ==
  ASSUME NEW t \in Seq(Names), NEW x \in Names, NEW copy, NEW a \in Nat, NEW n \in Nat,
         n <= Len(t), Arrived(t, copy, a, n)
  PROVE  Arrived(Append(t, x), copy, a + 1, n + 1)
<1>1. PICK l \in Nat, u \in Seq(Names) :
        l = Len(t) /\ u = Append(t, x) /\ Len(u) = l + 1 /\ \A p \in 1 .. l : u[p] = t[p]
  <2>1. /\ Append(t, x) \in Seq(Names) /\ Len(t) \in Nat /\ Len(Append(t, x)) = Len(t) + 1
        /\ \A p \in 1 .. Len(t) : Append(t, x)[p] = t[p]
    OBVIOUS
  <2> QED BY <2>1
<1>2. ASSUME NEW y \in 0 .. (n + 1) - (a + 1) - 1
      PROVE  y < Len(copy) /\ copy[Len(copy) - y] = u[Len(u) - (a + 1) - y]
  <2>1. y \in 0 .. n - a - 1
    OBVIOUS
  <2>2. y < Len(copy) /\ copy[Len(copy) - y] = t[l - a - y]
    BY <2>1, <1>1 DEF Arrived
  <2>3. l - a - y \in 1 .. l /\ Len(u) - (a + 1) - y = l - a - y
    BY <2>1, <1>1
  <2> QED BY <2>2, <2>3, <1>1
<1> QED BY <1>1, <1>2 DEF Arrived

\* The first event of c is read, and entry x gets into the copy.
LEMMA ArrivedAfterRead ==
  ASSUME NEW t \in Seq(Names), NEW copy \in Seq(Names), NEW x \in Names, NEW a \in Nat \ {0},
         NEW n \in Nat, Arrived(t, copy, a, n), x = t[Len(t) - (a - 1)]
  PROVE  Arrived(t, Append(copy, x), a - 1, n)
<1>1. PICK k \in Nat, new \in Seq(Names), l \in Nat :
        /\ k = Len(copy) /\ new = Append(copy, x) /\ Len(new) = k + 1 /\ new[k + 1] = x
        /\ \A p \in 1 .. k : new[p] = copy[p]
        /\ l = Len(t)
  <2>1. /\ Append(copy, x) \in Seq(Names) /\ Len(copy) \in Nat
        /\ Len(Append(copy, x)) = Len(copy) + 1 /\ Append(copy, x)[Len(copy) + 1] = x
        /\ \A p \in 1 .. Len(copy) : Append(copy, x)[p] = copy[p]
        /\ Len(t) \in Nat
    OBVIOUS
  <2> QED BY <2>1
<1>2. ASSUME NEW y \in 0 .. n - (a - 1) - 1
      PROVE  y < k + 1 /\ new[(k + 1) - y] = t[l - (a - 1) - y]
  <2>1. CASE y = 0
    BY <2>1, <1>1
  <2>2. CASE y # 0
    <3>1. PICK z \in 0 .. n - a - 1 : z = y - 1
      BY <2>2
    <3>2. z < k /\ copy[k - z] = t[l - a - z]
      BY <3>1, <1>1 DEF Arrived
    <3>3. k - z \in 1 .. k /\ y < k + 1
      BY <3>1, <3>2
    <3>4. (k + 1) - y = k - z /\ l - (a - 1) - y = l - a - z
      BY <3>1
    <3> QED BY <3>2, <3>3, <3>4, <1>1
  <2> QED BY <2>1, <2>2
<1> QED BY <1>1, <1>2 DEF Arrived


\* An instruction of the stream: its event, e, is the last one.
LEMMA ComingAfterInsert ==
  ASSUME NEW t \in Seq(Names), NEW x \in Names, NEW ring \in Seq(TableEvent), NEW c,
         NEW e \in TableEvent, NEW a \in Nat, NEW n \in Nat, e.conn = c,
         a = Ahead(ring, c, Len(ring)), Coming(t, ring, c, a, n),
         Brings(e, Append(t, x), Len(t) + 1), WithinOwn(e, 0, n + 1)
  PROVE  /\ Ahead(Append(ring, e), c, Len(Append(ring, e))) = a + 1
         /\ Coming(Append(t, x), Append(ring, e), c, a + 1, n + 1)
<1>1. PICK m \in Nat, l \in Nat, u \in Seq(Names), r \in Seq(TableEvent) :
        /\ m = Len(ring) /\ l = Len(t) /\ u = Append(t, x) /\ r = Append(ring, e)
        /\ Len(u) = l + 1 /\ Len(r) = m + 1 /\ r[m + 1] = e
        /\ \A i \in 1 .. m : r[i] = ring[i]
  <2>1. Append(t, x) \in Seq(Names) /\ Len(t) \in Nat /\ Len(Append(t, x)) = Len(t) + 1
    OBVIOUS
  <2>2. /\ Append(ring, e) \in Seq(TableEvent) /\ Len(ring) \in Nat
        /\ Len(Append(ring, e)) = Len(ring) + 1 /\ Append(ring, e)[Len(ring) + 1] = e
        /\ \A i \in 1 .. Len(ring) : Append(ring, e)[i] = ring[i]
    OBVIOUS
  <2> QED BY <2>1, <2>2, ZenonT(60)
<1>2. \A i \in 0 .. m : Ahead(r, c, i) = Ahead(ring, c, i)
  BY <1>1, AheadAppend
<1>3. Ahead(r, c, m + 1) = a + 1
  <2>1. Ahead(r, c, m + 1) = Ahead(r, c, m) + One(r[m + 1].conn = c)
    BY AheadNext
  <2> QED BY <2>1, <1>1, <1>2 DEF One
<1>4. ASSUME NEW i \in 1 .. m, r[i].conn = c, (a + 1) - Ahead(r, c, i) < n + 1
      PROVE  /\ Brings(r[i], u, (l + 1) - ((a + 1) - Ahead(r, c, i)))
             /\ WithinOwn(r[i], (a + 1) - Ahead(r, c, i), n + 1)
  <2>1. PICK h \in Nat, p \in Nat : h = Ahead(ring, c, i) /\ h = Ahead(r, c, i) /\ p = a - h
    <3>1. Ahead(ring, c, i) \in Nat /\ Ahead(ring, c, m) - Ahead(ring, c, i) \in Nat
      BY AheadType, AheadWithin
    <3>2. Ahead(r, c, i) = Ahead(ring, c, i)
      BY <1>2
    <3> QED BY <3>1, <3>2, <1>1
  <2>2. p < n
    BY <2>1, <1>4
  <2>3. Brings(ring[i], t, l - p) /\ WithinOwn(ring[i], p, n)
    BY <2>1, <2>2, <1>1, <1>4 DEF Coming
  <2>4. ring[i] \in TableEvent /\ r[i] = ring[i]
    BY <1>1
  <2>5. (a + 1) - h = p + 1 /\ (l + 1) - (p + 1) = l - p
    BY <2>1, SMTT(20)
  <2>6. Brings(r[i], u, l - p)
    BY <2>3, <2>4, <1>1, BringsMore
  <2>7. WithinOwn(r[i], p + 1, n + 1)
    <3>1. ring[i].index \in Nat
      BY <2>4 DEF TableEvent
    <3>2. ring[i].index + 1 + p < n => ring[i].index + 1 + (p + 1) < n + 1
      BY <3>1, SMTT(20)
    <3> QED BY <3>2, <2>3, <2>4 DEF WithinOwn
  <2> QED BY <2>1, <2>5, <2>6, <2>7
<1>5. Coming(u, r, c, a + 1, n + 1)
  <2>1. /\ (a + 1) - Ahead(r, c, m + 1) = 0 /\ (l + 1) - 0 = l + 1
    BY <1>3
  <2>2. Brings(r[m + 1], u, (l + 1) - 0) /\ WithinOwn(r[m + 1], 0, n + 1)
    BY <2>1, <1>1
  <2>3. \A i \in 1 .. m + 1 : i \in 1 .. m \/ i = m + 1
    OBVIOUS
  <2> QED BY <2>1, <2>2, <2>3, <1>1, <1>4 DEF Coming
<1> QED BY <1>1, <1>3, <1>5

\* The first event of c is read.
LEMMA ComingAfterRead ==
  ASSUME NEW t, NEW ring \in Seq(TableEvent), ring # <<>>, NEW c, Head(ring).conn = c,
         NEW a \in Nat, NEW n \in Nat, a = Ahead(ring, c, Len(ring)), Coming(t, ring, c, a, n)
  PROVE  /\ a # 0 /\ Ahead(Tail(ring), c, Len(Tail(ring))) = a - 1
         /\ Coming(t, Tail(ring), c, a - 1, n)
<1>1. PICK m \in Nat, r \in Seq(TableEvent) :
        /\ r = Tail(ring) /\ m = Len(r) /\ Len(ring) = m + 1
        /\ \A i \in 1 .. m : r[i] = ring[i + 1]
  <2>1. Len(ring) \in Nat \ {0} /\ Tail(ring) \in Seq(TableEvent) /\ Len(Tail(ring)) = Len(ring) - 1
        /\ Len(ring) - 1 \in Nat /\ Len(ring) = (Len(ring) - 1) + 1
        /\ \A i \in 1 .. Len(ring) - 1 : Tail(ring)[i] = ring[i + 1]
    OBVIOUS
  <2> QED BY <2>1
<1>2. ASSUME NEW i \in 0 .. m
      PROVE  Ahead(ring, c, i + 1) = Ahead(r, c, i) + 1 /\ Ahead(r, c, i) \in Nat
  <2>1. Ahead(ring, c, i + 1) = Ahead(Tail(ring), c, i) + One(Head(ring).conn = c)
    BY <1>1, AheadTail
  <2> QED BY <2>1, <1>1, AheadType DEF One
<1>3. a # 0 /\ Ahead(r, c, m) = a - 1
  <2>1. m \in 0 .. m
    OBVIOUS
  <2>2. a = Ahead(r, c, m) + 1 /\ Ahead(r, c, m) \in Nat
    BY <2>1, <1>1, <1>2
  <2> QED BY <2>2
<1>4. ASSUME NEW i \in 1 .. m, NEW q, q = a - 1 - Ahead(r, c, i), r[i].conn = c, q < n
      PROVE  Brings(r[i], t, Len(t) - q) /\ WithinOwn(r[i], q, n)
  <2>1. i + 1 \in 1 .. Len(ring) /\ r[i] = ring[i + 1] /\ i \in 0 .. m
    BY <1>1
  <2>2. q = a - Ahead(ring, c, i + 1)
    BY <2>1, <1>2, <1>4
  <2> QED BY <2>1, <2>2, <1>4 DEF Coming
<1> QED BY <1>1, <1>3, <1>4 DEF Coming

\* An instruction of stream s, whose event e is sent or lost, puts x in its table of object c.
Inserted(s, c, e, x) ==
  /\ c \in Conns /\ c = stream[s].conn /\ e.conn = c
  /\ table'[s] = Append(table[s], x) /\ \A r \in Streams \ {s} : table'[r] = table[r]
  /\ Brings(e, Append(table[s], x), Len(table[s]) + 1)
  /\ WithinOwn(e, 0, stream[s].inserted + 1)
  /\ stream'[s].inserted = stream[s].inserted + 1
  /\ \A r \in Streams \ {s} : stream'[r] = stream[r]
  /\ stream'[s].conn = c /\ stream'[s].base = stream[s].base
  /\ \/ table_events' = Append(table_events, e) /\ lostInserts' = lostInserts
     \/ table_events' = table_events /\ lostInserts' = lostInserts \cup {s}
  /\ UNCHANGED <<plan, resp_events, daemonVars, shared>>

LEMMA InsertedEffect ==
  ASSUME Types, NEW w \in Workers, NEW s \in Streams, TableOp(w, s), UNCHANGED daemonVars
  PROVE  \E c \in Conns, e \in TableEvent, x \in Names : Inserted(s, c, e, x)
<1>1. PICK k : k = stream[s].inserted + 1
  OBVIOUS
<1>2. PICK c, i, x : c = stream[s].conn /\ i = plan[s].table[k] /\ x = NameInserted(s, k)
  OBVIOUS
<1>3. PICK e : e = [conn |-> c, op |-> i.op, dynamic |-> i.dynamic, index |-> i.index, name |-> <<s, k>>]
  OBVIOUS
<1>4. entry_table(w, s)
  BY DEF TableOp
<1>5. /\ c \in Conns /\ e \in TableEvent /\ x \in Names
      /\ table' = [table EXCEPT ![s] = Append(@, x)]
      /\ Brings(e, Append(table[s], x), Len(table[s]) + 1)
      /\ k <= Len(plan[s].table)
      /\ Only(s) /\ stream'[s].conn = c /\ stream'[s].base = stream[s].base /\ stream'[s].inserted = k
      /\ \/ table_events' = Append(table_events, e) /\ lostInserts' = lostInserts
         \/ table_events' = table_events /\ lostInserts' = lostInserts \cup {s}
  BY <1>1, <1>2, <1>3, <1>4, InsertEffect
<1>6. table'[s] = Append(table[s], x) /\ \A r \in Streams \ {s} : table'[r] = table[r]
  BY <1>5 DEF Types, NginxType
<1>7. e.conn = c /\ e.op = i.op /\ e.dynamic = i.dynamic /\ e.index = i.index
  BY <1>3
<1>8. WithinOwn(e, 0, k)
  <2>1. stream[s].inserted \in Nat /\ k \in 1 .. Len(plan[s].table)
    BY <1>1, <1>5, PlanType DEF Types, NginxType, StreamRecord
  <2>2. Resolvable(i, k)
    BY <2>1, <1>2, PlanType DEF Types
  <2>3. i.index \in Nat
    BY <1>5, <1>7 DEF TableEvent
  <2>4. \/ i.op = "insert" \/ (i.op = "ref_insert" /\ ~i.dynamic) \/ i.index + 1 < k
    BY <2>2 DEF Resolvable
  <2>5. i.index + 1 + 0 = i.index + 1
    BY <2>3
  <2> QED BY <2>4, <2>5, <1>7 DEF WithinOwn
<1>9. UNCHANGED <<plan, resp_events, shared>>
  BY <1>4 DEF entry_table, TableOp
<1>10. Inserted(s, c, e, x)
  BY <1>1, <1>2, <1>5, <1>6, <1>7, <1>8, <1>9 DEF Inserted, Only
<1> QED BY <1>5, <1>10

LEMMA InsertSuffixes ==
  ASSUME Types, Met, Suffixes, NEW s \in Streams, NEW c \in Conns, NEW e \in TableEvent,
         NEW x \in Names, Inserted(s, c, e, x)
  PROVE  Suffixes'
<1> SUFFICES ASSUME NEW r \in Streams, r \notin lostInserts', r \notin shared', NEW d, d = stream'[r].conn, d # None
             PROVE  OwnEntries(r, d)'
  BY DEF Suffixes
<1>1. r \notin lostInserts /\ r \notin shared
  BY DEF Inserted
<1>2. UNCHANGED dynamicTables
  BY DEF Inserted, daemonVars
<1>3. CASE r # s
  <2>1. stream'[r] = stream[r] /\ d \in Conns /\ d = stream[r].conn
    BY <1>3 DEF Inserted, Types, NginxType, StreamRecord
  <2>2. d # c
    BY <2>1, <1>1, <1>3 DEF Inserted, Met
  <2>3. table'[r] = table[r] /\ OwnEntries(r, d)
    BY <2>1, <1>1, <1>3 DEF Inserted, Suffixes
  <2>4. CASE table_events' = table_events
    BY <2>1, <2>3, <2>4, <1>2 DEF OwnEntries
  <2>5. CASE table_events' = Append(table_events, e)
    <3>1. PICK m \in Nat :
            /\ m = Len(table_events) /\ Len(table_events') = m + 1 /\ table_events'[m + 1] = e
            /\ \A i \in 1 .. m : table_events'[i] = table_events[i]
      BY <2>5 DEF Types, RingType
    <3>2. \A i \in 0 .. m : Ahead(table_events', d, i) = Ahead(table_events, d, i)
      BY <2>5, <3>1, AheadAppend DEF Types, RingType
    <3>3. Ahead(table_events', d, m + 1) = Ahead(table_events, d, m)
      <4>1. Ahead(table_events', d, m + 1)
              = Ahead(table_events', d, m) + One(table_events'[m + 1].conn = d)
        BY AheadNext
      <4>2. Ahead(table_events, d, m) \in Nat /\ e.conn # d
        BY <2>2, AheadType DEF Inserted
      <4> QED BY <4>1, <4>2, <3>1, <3>2 DEF One
    <3>4. PICK a, n, t :
            a = Ahead(table_events, d, m) /\ n = stream[r].inserted /\ t = table[r]
      OBVIOUS
    <3>5. Arrived(t, dynamicTables[d], a, n) /\ Coming(t, table_events, d, a, n)
      BY <2>3, <3>1, <3>4 DEF OwnEntries
    <3>6. Coming(t, table_events', d, a, n)
      <4> SUFFICES ASSUME NEW i \in 1 .. m + 1, NEW q, q = a - Ahead(table_events', d, i),
                          table_events'[i].conn = d, q < n
                   PROVE  Brings(table_events'[i], t, Len(t) - q) /\ WithinOwn(table_events'[i], q, n)
        BY <3>1 DEF Coming
      <4>1. i \in 1 .. m
        BY <3>1, <2>2 DEF Inserted
      <4> QED BY <4>1, <3>1, <3>2, <3>5 DEF Coming
    <3> QED BY <2>1, <2>3, <3>1, <3>3, <3>4, <3>5, <3>6, <1>2 DEF OwnEntries
  <2> QED BY <2>4, <2>5 DEF Inserted
<1>4. CASE r = s
  <2>1. d = c /\ c = stream[s].conn /\ c # None /\ table_events' = Append(table_events, e)
    BY <1>4, H3Assumption DEF Inserted
  <2>2. PICK a \in Nat, n \in Nat, t \in Seq(Names) :
          /\ a = Ahead(table_events, c, Len(table_events)) /\ n = stream[s].inserted /\ t = table[s]
          /\ n <= Len(t)
    <3>1. stream[s].inserted \in Nat /\ table[s] \in Seq(Names) /\ stream[s].inserted <= Len(table[s])
      BY <2>1 DEF Types, NginxType, OwnObject, StreamRecord
    <3>2. Len(table_events) \in Nat
      BY DEF Types, RingType
    <3> QED BY <3>1, <3>2, AheadType
  <2>3. Arrived(t, dynamicTables[c], a, n) /\ Coming(t, table_events, c, a, n)
    BY <2>1, <2>2, <1>1, <1>4 DEF OwnEntries, Suffixes
  <2>4. Arrived(Append(t, x), dynamicTables[c], a + 1, n + 1)
    BY <2>2, <2>3, ArrivedAfterInsert
  <2>5. /\ e.conn = c /\ table'[s] = Append(t, x) /\ stream'[s].inserted = n + 1
        /\ Brings(e, Append(t, x), Len(t) + 1) /\ WithinOwn(e, 0, n + 1)
    BY <2>2 DEF Inserted
  <2>6. table_events \in Seq(TableEvent)
    BY DEF Types, RingType
  <2>7. /\ Ahead(table_events', c, Len(table_events')) = a + 1
        /\ Coming(Append(t, x), table_events', c, a + 1, n + 1)
    <3>1. Coming(t, table_events, c, a, n) /\ e.conn = c /\ a = Ahead(table_events, c, Len(table_events))
          /\ Brings(e, Append(t, x), Len(t) + 1) /\ WithinOwn(e, 0, n + 1)
      BY <2>2, <2>3, <2>5
    <3>2. /\ Ahead(Append(table_events, e), c, Len(Append(table_events, e))) = a + 1
          /\ Coming(Append(t, x), Append(table_events, e), c, a + 1, n + 1)
      BY <3>1, <2>6, ComingAfterInsert
    <3> QED BY <3>2, <2>1
  <2> QED BY <2>1, <2>4, <2>5, <2>7, <1>2, <1>4 DEF OwnEntries
<1> QED BY <1>3, <1>4

\* Neither the tables nor what is on its way change.
LEMMA SuffixesKept ==
  ASSUME Types, Suffixes, UNCHANGED <<table, dynamicTables, table_events>>,
         lostInserts \subseteq lostInserts', shared \subseteq shared',
         \A s \in Streams : stream'[s].conn # None =>
           \/ stream'[s].conn = stream[s].conn /\ stream'[s].inserted = stream[s].inserted
           \/ stream'[s].inserted = 0
  PROVE  Suffixes'
<1> SUFFICES ASSUME NEW s \in Streams, s \notin lostInserts', s \notin shared',
                    NEW c, c = stream'[s].conn, c # None
             PROVE  OwnEntries(s, c)'
  BY DEF Suffixes
<1>1. CASE c = stream[s].conn /\ stream'[s].inserted = stream[s].inserted
  BY <1>1 DEF Suffixes, OwnEntries
<1>2. CASE stream'[s].inserted = 0
  <2>1. PICK a : a = Ahead(table_events, c, Len(table_events))
    OBVIOUS
  <2>2. Arrived(table[s], dynamicTables[c], a, 0) /\ Coming(table[s], table_events, c, a, 0)
    BY <2>1, NoEntries DEF Types, RingType
  <2> QED BY <2>1, <2>2, <1>2 DEF OwnEntries
<1> QED BY <1>1, <1>2

\* An instruction that refers to an entry of its own stream finds it, whatever was lost before.
LEMMA ResolvedFromOwn ==
  ASSUME NEW c \in Conns, NEW e \in TableEvent, e.conn = c, NEW t \in Seq(Names),
         dynamicTables[c] \in Seq(Names), NEW a \in Nat \ {0}, NEW n \in Nat,
         Arrived(t, dynamicTables[c], a, n), NEW p, p = Len(t) - (a - 1),
         Brings(e, t, p), WithinOwn(e, a - 1, n)
  PROVE  NameToInsert(e) = t[p] /\ NameToInsert(e) \in Names /\ NameToInsert(e) # Unresolved
<1>1. /\ e.op \in {"insert", "ref_insert", "duplicate"} /\ e.dynamic \in BOOLEAN /\ e.index \in Nat
  BY DEF TableEvent
<1>2. t[p] \in Names /\ p \in 1 .. Len(t)
  BY DEF Brings
<1>3. t[p] # Unresolved
  BY <1>2, StaticType
<1>4. CASE e.op = "insert"
  BY <1>2, <1>3, <1>4 DEF Brings, NameToInsert
<1>5. CASE e.op = "ref_insert" /\ ~e.dynamic
  BY <1>2, <1>3, <1>5 DEF Brings, NameToInsert, resolveLive, Static
<1>6. CASE e.op # "insert" /\ ~(e.op = "ref_insert" /\ ~e.dynamic)
  <2>1. PICK j \in Nat, l \in Nat, k \in Nat :
          j = e.index /\ l = Len(t) /\ k = Len(dynamicTables[c])
    BY <1>1
  <2>2. t[p] = t[p - 1 - j]
    BY <2>1, <1>6, BringsAnother
  <2>3. j + 1 + (a - 1) < n
    BY <2>1, <1>6 DEF WithinOwn
  <2>4. j \in 0 .. n - a - 1 /\ p - 1 - j = l - a - j
    <3>1. j \in 0 .. n - a - 1
      BY <2>3
    <3>2. p = l - (a - 1)
      BY <2>1
    <3> QED BY <3>1, <3>2
  <2>5. j < k /\ dynamicTables[c][k - j] = t[l - a - j]
    BY <2>1, <2>4 DEF Arrived
  <2>6. resolveLive(c, TRUE, j) = t[p]
    BY <2>1, <2>2, <2>4, <2>5 DEF resolveLive
  <2>7. NameToInsert(e) = resolveLive(c, TRUE, j)
    <3>1. e.op = "ref_insert" => e.dynamic = TRUE
      BY <1>1, <1>6
    <3> QED BY <3>1, <2>1, <1>1, <1>6 DEF NameToInsert
  <2> QED BY <2>6, <2>7, <1>2, <1>3
<1> QED BY <1>4, <1>5, <1>6

\* tableEventLoop takes event e, of object c.
Taken(c, e) ==
  /\ c \in Conns /\ e.conn = c /\ e = Head(table_events)
  /\ table_events \in Seq(TableEvent) /\ table_events # <<>> /\ table_events' = Tail(table_events)
  /\ \/ NameToInsert(e) = Unresolved /\ dynamicTables'[c] = dynamicTables[c]
     \/ NameToInsert(e) # Unresolved /\ dynamicTables'[c] = Append(dynamicTables[c], NameToInsert(e))
  /\ \A d \in Conns \ {c} : dynamicTables'[d] = dynamicTables[d]
  /\ UNCHANGED <<plan, stream, table, resp_events, lostInserts, pendingResp, rev, idle, toEmit,
                 responses, unclean, shifted, shared>>

LEMMA ReadTableEffect ==
  ASSUME Types, ReadTable
  PROVE  \E c \in Conns, e \in TableEvent : Taken(c, e)
<1>1. /\ table_events \in Seq(TableEvent) /\ table_events # <<>> /\ table_events' = Tail(table_events)
  BY DEF Types, RingType, ReadTable
<1>2. PICK e \in TableEvent : e = Head(table_events)
  BY <1>1
<1>3. PICK c \in Conns : c = e.conn
  BY DEF TableEvent
<1>4. dynamicTables' = IF NameToInsert(e) = Unresolved THEN dynamicTables
                       ELSE [dynamicTables EXCEPT ![c] = Append(@, NameToInsert(e))]
  BY <1>2, <1>3 DEF ReadTable
<1>5. /\ \/ NameToInsert(e) = Unresolved /\ dynamicTables'[c] = dynamicTables[c]
         \/ NameToInsert(e) # Unresolved /\ dynamicTables'[c] = Append(dynamicTables[c], NameToInsert(e))
      /\ \A d \in Conns \ {c} : dynamicTables'[d] = dynamicTables[d]
  <2>1. dynamicTables \in [Conns -> Seq(Names)]
    BY DEF Types, DaemonType
  <2> QED BY <2>1, <1>4
<1>6. UNCHANGED <<plan, stream, table, resp_events, lostInserts, pendingResp, rev, idle, toEmit,
                  responses, unclean, shifted, shared>>
  BY DEF ReadTable
<1>7. Taken(c, e)
  BY <1>1, <1>2, <1>3, <1>5, <1>6 DEF Taken
<1> QED BY <1>7

LEMMA ReadSuffixes ==
  ASSUME Types, Suffixes, NEW c \in Conns, NEW e \in TableEvent, Taken(c, e)
  PROVE  Suffixes'
<1> SUFFICES ASSUME NEW s \in Streams, s \notin lostInserts, s \notin shared,
                    NEW d \in Conns, d = stream[s].conn
             PROVE  OwnEntries(s, d)'
  <2>1. \A s \in Streams : stream[s].conn \in Conns \cup {None}
    BY DEF Types, NginxType, StreamRecord
  <2> QED BY <2>1 DEF Suffixes, Taken
<1>1. /\ table_events \in Seq(TableEvent) /\ table_events # <<>> /\ table_events' = Tail(table_events)
      /\ e = Head(table_events) /\ e.conn = c /\ UNCHANGED <<stream, table>>
      /\ dynamicTables[c] \in Seq(Names)
  BY DEF Taken, Types, DaemonType
<1>2. OwnEntries(s, d) /\ d # None
  BY H3Assumption DEF Suffixes
<1>3. PICK a \in Nat, n \in Nat, t \in Seq(Names) :
        a = Ahead(table_events, d, Len(table_events)) /\ n = stream[s].inserted /\ t = table[s]
  <2>1. stream[s].inserted \in Nat /\ table[s] \in Seq(Names) /\ Len(table_events) \in Nat
    BY <1>1 DEF Types, NginxType, StreamRecord
  <2> QED BY <2>1, AheadType
<1>4. Arrived(t, dynamicTables[d], a, n) /\ Coming(t, table_events, d, a, n)
  BY <1>2, <1>3 DEF OwnEntries
<1>5. CASE d = c
  <2>1. Head(table_events).conn = c /\ a = Ahead(table_events, c, Len(table_events))
        /\ Coming(t, table_events, c, a, n) /\ Arrived(t, dynamicTables[c], a, n)
    BY <1>1, <1>3, <1>4, <1>5
  <2>2. /\ a # 0 /\ Ahead(Tail(table_events), c, Len(Tail(table_events))) = a - 1
        /\ Coming(t, Tail(table_events), c, a - 1, n)
    BY <2>1, <1>1, ComingAfterRead
  <2>3. Arrived(t, dynamicTables'[c], a - 1, n)
    <3>1. CASE a - 1 < n
      <4>1. PICK p : p = Len(t) - (a - 1)
        OBVIOUS
      <4>2. 1 \in 1 .. Len(table_events) /\ table_events[1] = e
        BY <1>1
      <4>3. Ahead(table_events, c, 1) = 1
        <5>1. Ahead(table_events, c, 0 + 1)
                = Ahead(table_events, c, 0) + One(table_events[0 + 1].conn = c)
          BY AheadNext
        <5> QED BY <5>1, <4>2, <1>1, AheadNone DEF One
      <4>4. Brings(e, t, p) /\ WithinOwn(e, a - 1, n)
        BY <2>1, <3>1, <4>1, <4>2, <4>3, <1>1 DEF Coming
      <4>5. NameToInsert(e) = t[p] /\ NameToInsert(e) \in Names /\ NameToInsert(e) # Unresolved
        BY <2>1, <2>2, <4>1, <4>4, <1>1, ResolvedFromOwn, SMTT(20)
      <4>6. dynamicTables'[c] = Append(dynamicTables[c], NameToInsert(e))
        BY <4>5 DEF Taken
      <4>7. Arrived(t, Append(dynamicTables[c], NameToInsert(e)), a - 1, n)
        BY <2>1, <2>2, <4>1, <4>5, <1>1, ArrivedAfterRead
      <4> QED BY <4>6, <4>7
    <3>2. CASE ~(a - 1 < n)
      <4>1. \A y : y \notin 0 .. n - (a - 1) - 1
        BY <3>2
      <4> QED BY <4>1 DEF Arrived
    <3> QED BY <3>1, <3>2
  <2> QED BY <2>2, <2>3, <1>1, <1>3, <1>5 DEF OwnEntries
<1>6. CASE d # c
  <2>1. dynamicTables'[d] = dynamicTables[d]
    BY <1>6 DEF Taken
  <2>2. PICK m \in Nat :
          /\ Len(table_events) = m + 1 /\ Len(table_events') = m
          /\ \A i \in 1 .. m : table_events'[i] = table_events[i + 1]
    <3>1. Len(table_events) \in Nat \ {0} /\ Len(Tail(table_events)) = Len(table_events) - 1
          /\ Len(table_events) - 1 \in Nat /\ Len(table_events) = (Len(table_events) - 1) + 1
          /\ \A i \in 1 .. Len(table_events) - 1 : Tail(table_events)[i] = table_events[i + 1]
      BY <1>1
    <3> QED BY <3>1, <1>1
  <2>3. ASSUME NEW i \in 0 .. m PROVE Ahead(table_events, d, i + 1) = Ahead(table_events', d, i)
    <3>1. Ahead(table_events, d, i + 1)
            = Ahead(Tail(table_events), d, i) + One(Head(table_events).conn = d)
      BY <2>2, <1>1, AheadTail
    <3>2. Ahead(table_events', d, i) \in Nat
      BY AheadType
    <3> QED BY <3>1, <3>2, <1>1, <1>6 DEF One
  <2>4. Ahead(table_events', d, m) = a
    BY <2>2, <2>3, <1>3
  <2>5. Coming(t, table_events', d, a, n)
    <3> SUFFICES ASSUME NEW i \in 1 .. m, NEW q, q = a - Ahead(table_events', d, i),
                        table_events'[i].conn = d, q < n
                 PROVE  Brings(table_events'[i], t, Len(t) - q) /\ WithinOwn(table_events'[i], q, n)
      BY <2>2 DEF Coming
    <3>1. /\ i + 1 \in 1 .. Len(table_events) /\ table_events'[i] = table_events[i + 1]
          /\ Ahead(table_events', d, i) = Ahead(table_events, d, i + 1)
      BY <2>2, <2>3
    <3> QED BY <3>1, <1>4 DEF Coming
  <2> QED BY <2>1, <2>2, <2>4, <2>5, <1>1, <1>3, <1>4 DEF OwnEntries
<1> QED BY <1>5, <1>6

LEMMA ResolvedKept ==
  ASSUME Resolved, UNCHANGED <<rev, pendingResp, toEmit, responses>>,
         \A s : Timely(s)' => Timely(s)
  PROVE  Resolved'
<1>1. \A f : Right(f) => Right(f)'
  BY DEF Right
<1> QED BY <1>1 DEF Resolved

\* Neither the tables nor the fields of responses move.
LEMMA QuietNames ==
  ASSUME Types, NameInv,
         UNCHANGED <<plan, table, table_events, dynamicTables, resp_events, rev, pendingResp, toEmit,
                     responses>>,
         unclean \subseteq unclean', shifted \subseteq shifted', shared \subseteq shared',
         lostInserts \subseteq lostInserts',
         \A s \in Streams :
           /\ stream'[s].base = stream[s].base
           /\ stream'[s].conn # None =>
                \/ stream'[s].conn = stream[s].conn /\ stream'[s].inserted = stream[s].inserted
                \/ stream'[s].inserted = 0
  PROVE  NameInv'
<1>1. \A s : Timely(s)' => Timely(s)
  BY DEF Timely
<1>2. Suffixes'
  BY SuffixesKept DEF NameInv
<1>3. Resolved'
  BY <1>1, ResolvedKept DEF NameInv
<1>4. Referred'
  <2> SUFFICES ASSUME NEW s \in Streams, NEW c \in Conns, Timely(s), Waits(s, c)
               PROVE  /\ pendingResp[c] = None => \A i \in 1 .. Len(table_events) : table_events[i].conn # c
                      /\ Found(s, c)'
                      /\ \A i \in 1 .. Len(resp_events) :
                           resp_events[i].conn = c => Refers(s, c, resp_events[i])'
    <3>1. \A s, c : Waits(s, c)' <=> Waits(s, c)
      BY DEF Waits, InHand, StreamsOf
    <3> QED BY <3>1, <1>1 DEF Referred
  <2>1. /\ pendingResp[c] = None => \A i \in 1 .. Len(table_events) : table_events[i].conn # c
        /\ Found(s, c)
        /\ \A i \in 1 .. Len(resp_events) : resp_events[i].conn = c => Refers(s, c, resp_events[i])
    BY DEF NameInv, Referred
  <2>2. Found(s, c)'
    BY <2>1 DEF Found, currentBase
  <2>3. \A e : Refers(s, c, e) => Refers(s, c, e)'
    BY DEF Refers
  <2> QED BY <2>1, <2>2, <2>3
<1> QED BY <1>2, <1>3, <1>4 DEF NameInv

LEMMA InsertNames ==
  ASSUME Types, Met, ResponseInv, NameInv, NEW w \in Workers, NEW s \in Streams, TableOp(w, s),
         UNCHANGED daemonVars
  PROVE  NameInv'
<1>1. PICK c \in Conns, e \in TableEvent, x \in Names : Inserted(s, c, e, x)
  BY InsertedEffect
<1>2. shifted' = shifted \cup FirstFieldUnderway(c) /\ UNCHANGED unclean
  BY <1>1 DEF TableOp, Inserted
<1>3. UNCHANGED <<plan, resp_events, dynamicTables, rev, pendingResp, toEmit, responses>>
  BY <1>1 DEF Inserted, daemonVars
<1>4. \A r : Timely(r)' => Timely(r)
  BY <1>1, <1>2 DEF Timely, Inserted
<1>5. Suffixes'
  BY <1>1, InsertSuffixes DEF NameInv
<1>6. Resolved'
  BY <1>3, <1>4, ResolvedKept DEF NameInv
<1>7. \A r \in Streams : stream'[r].base = stream[r].base
  BY <1>1 DEF Inserted
<1>8. \A r, d : Waits(r, d)' <=> Waits(r, d)
  BY <1>3 DEF Waits, InHand, StreamsOf
<1>9. ASSUME NEW r \in Streams, NEW d \in Conns, Timely(r)', Waits(r, d)
      PROVE  /\ pendingResp[d] = None => \A i \in 1 .. Len(table_events') : table_events'[i].conn # d
             /\ Found(r, d)'
             /\ \A i \in 1 .. Len(resp_events) :
                  resp_events[i].conn = d => Refers(r, d, resp_events[i])'
  <2>1. /\ pendingResp[d] = None => \A i \in 1 .. Len(table_events) : table_events[i].conn # d
        /\ Found(r, d)
        /\ \A i \in 1 .. Len(resp_events) : resp_events[i].conn = d => Refers(r, d, resp_events[i])
    BY <1>4, <1>9 DEF NameInv, Referred
  <2>2. d = c => pendingResp[d] # None
    <3> SUFFICES ASSUME pendingResp[c] = None, d = c PROVE FALSE
      OBVIOUS
    <3>1. UnderWay(r, c)
      BY <1>4, <1>9 DEF ResponseInv, Together, Timely
    <3>2. r \in FirstFieldUnderway(c)
      BY <3>1 DEF UnderWay
    <3> QED BY <3>2, <1>2, <1>9 DEF Timely
  <2>3. /\ Len(table[r]) <= Len(table'[r]) /\ Len(table[r]) \in Nat /\ Len(table'[r]) \in Nat
        /\ \A p \in 1 .. Len(table[r]) : table'[r][p] = table[r][p]
    <3>1. table[r] \in Seq(Names)
      BY DEF Types, NginxType
    <3>2. table'[r] = table[r] \/ table'[r] = Append(table[r], x)
      BY <1>1 DEF Inserted
    <3> QED BY <3>1, <3>2
  <2>4. pendingResp[d] = None => \A i \in 1 .. Len(table_events') : table_events'[i].conn # d
    <3>1. table_events' = table_events \/ (table_events' = Append(table_events, e) /\ e.conn = c)
      BY <1>1 DEF Inserted
    <3>2. table_events \in Seq(TableEvent)
      BY DEF Types, RingType
    <3> QED BY <3>1, <3>2, <2>1, <2>2
  <2>5. ASSUME NEW k \in 1 .. Len(plan[r].reply), plan[r].reply[k].dynamic,
               NEW p, p = stream[r].base - plan[r].reply[k].index
        PROVE  p \in 1 .. Len(table[r]) /\ p \in 1 .. Len(table'[r]) /\ table'[r][p] = table[r][p]
    <3>1. p \in 1 .. Len(table[r])
      BY <2>1, <2>5 DEF Found
    <3> QED BY <3>1, <2>3
  <2>6. Found(r, d)'
    <3> SUFFICES ASSUME NEW k \in 1 .. Len(plan[r].reply), plan[r].reply[k].dynamic
                 PROVE  LET y == plan[r].reply[k].index IN
                        /\ stream[r].base - y \in 1 .. Len(table'[r])
                        /\ currentBase(d) - y \in 1 .. Len(dynamicTables[d])
                        /\ dynamicTables[d][currentBase(d) - y] = table'[r][stream[r].base - y]
      BY <1>3, <1>7 DEF Found, currentBase
    <3> QED BY <2>1, <2>5 DEF Found
  <2>7. ASSUME NEW f, Refers(r, d, f) PROVE Refers(r, d, f)'
    <3>1. PICK k \in 1 .. Len(plan[r].reply) :
            /\ f.dynamic = plan[r].reply[k].dynamic /\ f.index = plan[r].reply[k].index
            /\ f.means = IF f.dynamic THEN table[r][stream[r].base - f.index] ELSE StaticName(f.index)
      BY <2>7 DEF Refers
    <3>2. f.dynamic => table'[r][stream[r].base - f.index] = table[r][stream[r].base - f.index]
      BY <3>1, <2>5
    <3> QED BY <3>1, <3>2, <1>3, <1>7 DEF Refers
  <2> QED BY <2>1, <2>4, <2>6, <2>7, <1>3
<1>10. Referred'
  BY <1>3, <1>4, <1>8, <1>9 DEF Referred
<1> QED BY <1>5, <1>6, <1>10 DEF NameInv

LEMMA ReadTableNames ==
  ASSUME Types, NameInv, ReadTable
  PROVE  NameInv'
<1>1. PICK c \in Conns, e \in TableEvent : Taken(c, e)
  BY ReadTableEffect
<1>2. UNCHANGED <<plan, stream, table, resp_events, pendingResp, rev, toEmit, responses, unclean,
                  shifted, shared, lostInserts>>
  BY <1>1 DEF Taken
<1>3. \A s : Timely(s)' => Timely(s)
  BY <1>2 DEF Timely
<1>4. Suffixes' /\ Resolved'
  BY <1>1, <1>2, <1>3, ReadSuffixes, ResolvedKept DEF NameInv
<1>5. \A s, d : Waits(s, d)' <=> Waits(s, d)
  BY <1>2 DEF Waits, InHand, StreamsOf
<1>6. PICK m \in Nat :
        /\ Len(table_events) = m + 1 /\ Len(table_events') = m
        /\ table_events[1] = e /\ e.conn = c
        /\ \A i \in 1 .. m : table_events'[i] = table_events[i + 1]
  <2>1. /\ Len(table_events) \in Nat \ {0} /\ Len(Tail(table_events)) = Len(table_events) - 1
        /\ Len(table_events) - 1 \in Nat /\ Len(table_events) = (Len(table_events) - 1) + 1
        /\ Head(table_events) = table_events[1]
        /\ \A i \in 1 .. Len(table_events) - 1 : Tail(table_events)[i] = table_events[i + 1]
    BY <1>1 DEF Taken
  <2> QED BY <2>1, <1>1 DEF Taken
<1>7. ASSUME NEW s \in Streams, NEW d \in Conns, Timely(s), Waits(s, d)
      PROVE  /\ pendingResp[d] = None => \A i \in 1 .. Len(table_events') : table_events'[i].conn # d
             /\ Found(s, d)'
             /\ \A i \in 1 .. Len(resp_events) :
                  resp_events[i].conn = d => Refers(s, d, resp_events[i])'
  <2>1. /\ pendingResp[d] = None => \A i \in 1 .. Len(table_events) : table_events[i].conn # d
        /\ Found(s, d)
        /\ \A i \in 1 .. Len(resp_events) : resp_events[i].conn = d => Refers(s, d, resp_events[i])
    BY <1>7 DEF NameInv, Referred
  <2>2. pendingResp[d] = None => d # c /\ \A i \in 1 .. m : table_events'[i].conn # d
    <3>1. 1 \in 1 .. m + 1 /\ \A i \in 1 .. m : i + 1 \in 1 .. m + 1
      OBVIOUS
    <3> QED BY <3>1, <2>1, <1>6
  <2>3. currentBase(d)' = currentBase(d)
    BY <2>2, <1>1, <1>2 DEF currentBase, Taken
  <2>4. /\ Len(dynamicTables[d]) <= Len(dynamicTables'[d])
        /\ Len(dynamicTables[d]) \in Nat /\ Len(dynamicTables'[d]) \in Nat
        /\ \A p \in 1 .. Len(dynamicTables[d]) : dynamicTables'[d][p] = dynamicTables[d][p]
    <3>1. dynamicTables[d] \in Seq(Names)
      BY DEF Types, DaemonType
    <3>2. \E x : dynamicTables'[d] = dynamicTables[d] \/ dynamicTables'[d] = Append(dynamicTables[d], x)
      BY <1>1 DEF Taken
    <3>3. Types'
      BY ReadTableKeeps
    <3>4. dynamicTables'[d] \in Seq(Names)
      BY <3>3 DEF Types, DaemonType
    <3> QED BY <3>1, <3>2, <3>4
  <2>5. Found(s, d)'
    <3>1. ASSUME NEW p \in 1 .. Len(dynamicTables[d])
          PROVE  p \in 1 .. Len(dynamicTables'[d]) /\ dynamicTables'[d][p] = dynamicTables[d][p]
      BY <2>4
    <3> SUFFICES ASSUME NEW k \in 1 .. Len(plan[s].reply), plan[s].reply[k].dynamic
                 PROVE  LET y == plan[s].reply[k].index IN
                        /\ stream[s].base - y \in 1 .. Len(table[s])
                        /\ currentBase(d) - y \in 1 .. Len(dynamicTables'[d])
                        /\ dynamicTables'[d][currentBase(d) - y] = table[s][stream[s].base - y]
      BY <1>2, <2>3 DEF Found
    <3> QED BY <2>1, <3>1 DEF Found
  <2>6. \A f : Refers(s, d, f) => Refers(s, d, f)'
    BY <1>2 DEF Refers
  <2> QED BY <2>1, <2>2, <2>5, <2>6, <1>2, <1>6
<1>8. Referred'
  BY <1>2, <1>3, <1>5, <1>7 DEF Referred
<1> QED BY <1>4, <1>8 DEF NameInv

\* The name is found under the base, or in the static table.
LEMMA FetchedName ==
  ASSUME Types, NameInv, NEW e \in RespEvent, NEW n \in Nat, Fetched(e, n)
  PROVE  Right(rev'.field)
<1>1. PICK s \in Streams, c \in Conns : s = e.value[1] /\ c = e.conn
  BY FieldParts DEF RespEvent
<1>2. PICK f : f = rev'.field /\ f.value = e.value /\ f.means = e.means
               /\ f.name = resolveIndexed(c, e.dynamic, e.index, currentBase(c))
  BY <1>1 DEF Fetched
<1> SUFFICES ASSUME Timely(s) PROVE f.name = f.means
  BY <1>1, <1>2 DEF Right
<1>3. 1 \in 1 .. Len(resp_events) /\ resp_events[1] = e
  BY DEF Fetched
<1>4. Waits(s, c)
  BY <1>1, <1>3 DEF Waits
<1>5. Found(s, c) /\ Refers(s, c, e)
  BY <1>1, <1>3, <1>4 DEF NameInv, Referred
<1>6. PICK k \in 1 .. Len(plan[s].reply) :
        /\ e.dynamic = plan[s].reply[k].dynamic /\ e.index = plan[s].reply[k].index
        /\ e.means = IF e.dynamic THEN table[s][stream[s].base - e.index] ELSE StaticName(e.index)
  BY <1>5 DEF Refers
<1>7. CASE e.dynamic
  <2>1. /\ currentBase(c) - e.index \in 1 .. Len(dynamicTables[c])
        /\ dynamicTables[c][currentBase(c) - e.index] = e.means
    BY <1>5, <1>6, <1>7 DEF Found
  <2> QED BY <2>1, <1>2, <1>7 DEF resolveIndexed
<1>8. CASE ~e.dynamic
  <2>1. e.index < StaticLen
    BY <1>6, <1>8, PlanType DEF Types
  <2> QED BY <2>1, <1>2, <1>6, <1>8 DEF resolveIndexed, Static
<1> QED BY <1>7, <1>8

LEMMA ReadRespNames ==
  ASSUME Types, NameInv, ReadResp
  PROVE  NameInv'
<1>1. PICK e \in RespEvent, n \in Nat : Fetched(e, n)
  BY ReadRespEffect
<1>2. /\ UNCHANGED <<plan, stream, table, table_events, lostInserts, pendingResp, dynamicTables, toEmit,
                     responses, unclean, shifted, shared>>
      /\ Len(resp_events) = n + 1 /\ Len(resp_events') = n
      /\ \A i \in 1 .. n : resp_events'[i] = resp_events[i + 1]
  BY <1>1 DEF Fetched
<1>3. \A s : Timely(s)' <=> Timely(s)
  BY <1>2 DEF Timely
<1>4. Suffixes'
  BY <1>2, SuffixesKept DEF NameInv
<1>5. Resolved'
  <2>1. \A f : Right(f)' <=> Right(f)
    BY <1>3 DEF Right
  <2>2. PICK f : f = rev'.field /\ Right(f)
    BY <1>1, FetchedName
  <2> QED BY <2>1, <2>2, <1>2 DEF NameInv, Resolved
<1>6. ASSUME NEW s \in Streams, NEW d \in Conns, Timely(s), Waits(s, d)
      PROVE  /\ pendingResp[d] = None => \A i \in 1 .. Len(table_events) : table_events[i].conn # d
             /\ Found(s, d)'
             /\ \A i \in 1 .. n : resp_events'[i].conn = d => Refers(s, d, resp_events[i + 1])
  <2>1. /\ pendingResp[d] = None => \A i \in 1 .. Len(table_events) : table_events[i].conn # d
        /\ Found(s, d)
        /\ \A i \in 1 .. Len(resp_events) : resp_events[i].conn = d => Refers(s, d, resp_events[i])
    BY <1>6 DEF NameInv, Referred
  <2>2. Found(s, d)'
    BY <2>1, <1>2 DEF Found, currentBase
  <2>3. \A i \in 1 .. n : i + 1 \in 1 .. n + 1
    OBVIOUS
  <2> QED BY <2>1, <2>2, <2>3, <1>2
<1>7. Referred'
  <2>1. \A s, d : Waits(s, d)' <=> Waits(s, d)
    BY <1>1, FetchedWaits
  <2>2. \A s, d, f : Refers(s, d, f)' <=> Refers(s, d, f)
    BY <1>2 DEF Refers
  <2>3. ASSUME NEW s \in Streams, NEW d \in Conns, Timely(s), Waits(s, d),
               NEW i \in 1 .. n, NEW f, f = resp_events'[i], f.conn = d
        PROVE  Refers(s, d, f)'
    BY <2>2, <2>3, <1>2, <1>6
  <2> QED BY <2>1, <2>3, <1>2, <1>3, <1>6 DEF Referred
<1> QED BY <1>4, <1>5, <1>7 DEF NameInv

\* The waiting fields stay under their objects, or go, and the bases stay with them.
LEMMA ReferredKept ==
  ASSUME Referred, UNCHANGED <<plan, stream, table, table_events, dynamicTables, resp_events>>,
         \A s : Timely(s)' => Timely(s),
         \A s \in Streams, c \in Conns :
           Timely(s) /\ Waits(s, c)' => /\ Waits(s, c) /\ currentBase(c)' = currentBase(c)
                                        /\ pendingResp'[c] = None => pendingResp[c] = None
  PROVE  Referred'
<1>1. ASSUME NEW s \in Streams, NEW c \in Conns, Timely(s), Waits(s, c)'
      PROVE  /\ pendingResp'[c] = None => \A i \in 1 .. Len(table_events) : table_events[i].conn # c
             /\ Found(s, c)'
             /\ \A i \in 1 .. Len(resp_events) : resp_events[i].conn = c => Refers(s, c, resp_events[i])
  <2>1. Waits(s, c) /\ currentBase(c)' = currentBase(c) /\ (pendingResp'[c] = None => pendingResp[c] = None)
    BY <1>1
  <2>2. /\ pendingResp[c] = None => \A i \in 1 .. Len(table_events) : table_events[i].conn # c
        /\ Found(s, c)
        /\ \A i \in 1 .. Len(resp_events) : resp_events[i].conn = c => Refers(s, c, resp_events[i])
    BY <2>1, <1>1 DEF Referred
  <2>3. Found(s, c)'
    BY <2>1, <2>2 DEF Found
  <2> QED BY <2>1, <2>2, <2>3
<1>2. \A s, c, f : Refers(s, c, f)' <=> Refers(s, c, f)
  BY DEF Refers
<1> QED BY <1>1, <1>2 DEF Referred

LEMMA StoredWaits ==
  ASSUME NEW c \in Conns, NEW f \in RespField, NEW ip \in Ips, NEW n \in Nat, Stored(c, f, ip, n),
         NEW s, NEW d \in Conns, Waits(s, d)'
  PROVE  Waits(s, d)
<1>1. /\ resp_events' = resp_events /\ rev' = None
      /\ rev # None /\ rev.conn = c /\ rev.field = f
      /\ \A x \in Conns \ {c} : pendingResp'[x] = pendingResp[x]
      /\ n \in Nat /\ Len(pendingResp'[c].fields) = n + 1 /\ pendingResp'[c].fields[n + 1] = f
      /\ pendingResp[c] # None =>
           /\ Len(pendingResp[c].fields) = n
           /\ \A k \in 1 .. n : pendingResp'[c].fields[k] = pendingResp[c].fields[k]
      /\ pendingResp[c] = None => n = 0
  BY DEF Stored, probeVars
<1>2. CASE d # c
  BY <1>1, <1>2 DEF Waits, InHand, StreamsOf
<1>3. CASE d = c
  <2>1. \/ \E i \in 1 .. Len(resp_events) : resp_events[i].conn = c /\ resp_events[i].value[1] = s
        \/ \E k \in 1 .. n + 1 : pendingResp'[c].fields[k].value[1] = s
    BY <1>1, <1>3 DEF Waits, InHand, StreamsOf
  <2>2. ASSUME NEW k \in 1 .. n + 1, pendingResp'[c].fields[k].value[1] = s PROVE Waits(s, c)
    <3>1. CASE k = n + 1
      BY <3>1, <2>2, <1>1 DEF Waits, InHand
    <3>2. CASE k \in 1 .. n
      <4>1. pendingResp[c] # None
        BY <3>2, <1>1
      <4> QED BY <4>1, <3>2, <2>2, <1>1 DEF Waits, StreamsOf
    <3> QED BY <3>1, <3>2, <1>1
  <2> QED BY <2>1, <2>2, <1>3 DEF Waits
<1> QED BY <1>2, <1>3

LEMMA AppendRespNames ==
  ASSUME Types, NameInv, appendRespField
  PROVE  NameInv'
<1>1. PICK c \in Conns, f \in RespField, ip \in Ips, n \in Nat : Stored(c, f, ip, n)
  BY AppendRespEffect
<1>2. /\ UNCHANGED <<plan, stream, table, table_events, dynamicTables, resp_events, lostInserts,
                     toEmit, responses, unclean, shifted, shared>>
      /\ rev # None /\ rev.field = f /\ rev' = None /\ n \in Nat
      /\ pendingResp'[c] # None /\ pendingResp'[c].base = currentBase(c)
      /\ \A d \in Conns \ {c} : pendingResp'[d] = pendingResp[d]
      /\ Len(pendingResp'[c].fields) = n + 1 /\ pendingResp'[c].fields[n + 1] = f
      /\ pendingResp[c] # None =>
           /\ Len(pendingResp[c].fields) = n
           /\ \A k \in 1 .. n : pendingResp'[c].fields[k] = pendingResp[c].fields[k]
      /\ pendingResp[c] = None => n = 0
  BY <1>1 DEF Stored, probeVars
<1>3. /\ \A s : Timely(s)' <=> Timely(s)
      /\ \A g : Right(g)' <=> Right(g)
  BY <1>2 DEF Timely, Right
<1>4. Suffixes'
  BY <1>2, SuffixesKept DEF NameInv
<1>5. Resolved'
  <2>1. ASSUME NEW k \in 1 .. n + 1 PROVE Right(pendingResp'[c].fields[k])
    <3>1. CASE k = n + 1
      BY <3>1, <1>2 DEF NameInv, Resolved
    <3>2. CASE k \in 1 .. n
      <4>1. pendingResp[c] # None
        BY <3>2, <1>2
      <4> QED BY <4>1, <3>2, <1>2 DEF NameInv, Resolved
    <3> QED BY <3>1, <3>2, <1>2
  <2>2. \A d \in Conns \ {c} : pendingResp'[d] # None =>
          \A k \in 1 .. Len(pendingResp'[d].fields) : Right(pendingResp'[d].fields[k])
    BY <1>2 DEF NameInv, Resolved
  <2>3. \A d \in Conns : pendingResp'[d] # None =>
          \A k \in 1 .. Len(pendingResp'[d].fields) : Right(pendingResp'[d].fields[k])
    BY <2>1, <2>2, <1>2
  <2> QED BY <2>3, <1>2, <1>3 DEF NameInv, Resolved
<1>6. \A d \in Conns : /\ currentBase(d)' = currentBase(d)
                       /\ pendingResp'[d] = None => pendingResp[d] = None
  BY <1>2 DEF currentBase
<1>7. \A s, d : d \in Conns /\ Waits(s, d)' => Waits(s, d)
  BY <1>1, StoredWaits
<1>8. Referred'
  BY <1>2, <1>3, <1>6, <1>7, ReferredKept DEF NameInv
<1> QED BY <1>4, <1>5, <1>8 DEF NameInv

LEMMA FlushTakeNames ==
  ASSUME Types, ResponseInv, NameInv, FlushTake
  PROVE  NameInv'
<1>1. /\ UNCHANGED <<plan, stream, table, table_events, dynamicTables, resp_events, lostInserts, rev,
                     responses, unclean, shifted, shared>>
      /\ toEmit = {} /\ toEmit' = {pendingResp[c] : c \in idle}
      /\ \A c \in idle : pendingResp'[c] = None
      /\ \A c \in Conns \ idle : pendingResp'[c] = pendingResp[c]
      /\ \A c \in idle : c \in Conns /\ pendingResp[c] # None
  BY DEF FlushTake, probeVars, Types, DaemonType
<1>2. /\ \A s : Timely(s)' <=> Timely(s)
      /\ \A g : Right(g)' <=> Right(g)
  BY <1>1 DEF Timely, Right
<1>3. Suffixes'
  BY <1>1, SuffixesKept DEF NameInv
<1>4. Resolved'
  <2>1. \A pr \in toEmit' : \A k \in 1 .. Len(pr.fields) : Right(pr.fields[k])
    BY <1>1 DEF NameInv, Resolved
  <2>2. \A c \in Conns : pendingResp'[c] # None =>
          \A k \in 1 .. Len(pendingResp'[c].fields) : Right(pendingResp'[c].fields[k])
    BY <1>1 DEF NameInv, Resolved
  <2> QED BY <2>1, <2>2, <1>1, <1>2 DEF NameInv, Resolved
<1>5. ASSUME NEW s \in Streams, NEW c \in Conns, Timely(s), Waits(s, c)'
      PROVE  Waits(s, c) /\ c \notin idle
  <2>1. CASE c \notin idle
    BY <2>1, <1>1, <1>5 DEF Waits, InHand, StreamsOf
  <2>2. CASE c \in idle
    <3>1. Waits(s, c) /\ (InHand(c) \/ \E i \in 1 .. Len(resp_events) : resp_events[i].conn = c)
      BY <2>2, <1>1, <1>5 DEF Waits, InHand, StreamsOf
    <3> QED BY <3>1, <2>2, <1>5, IdleIsWhole DEF Timely
  <2> QED BY <2>1, <2>2
<1>6. \A c \in Conns \ idle : currentBase(c)' = currentBase(c)
  BY <1>1 DEF currentBase
<1>7. Referred'
  BY <1>1, <1>2, <1>5, <1>6, ReferredKept DEF NameInv
<1> QED BY <1>3, <1>4, <1>7 DEF NameInv

LEMMA FlushEmitNames ==
  ASSUME Types, NameInv, NEW pr \in toEmit, FlushEmit(pr)
  PROVE  NameInv'
<1>1. /\ UNCHANGED <<plan, stream, table, table_events, dynamicTables, resp_events, lostInserts, rev,
                     pendingResp, unclean, shifted, shared>>
      /\ toEmit' = toEmit \ {pr}
  BY DEF FlushEmit, probeVars
<1>2. PICK n \in Nat, e \in Response :
        /\ e = [ip |-> pr.ip, fields |-> pr.fields]
        /\ n = Len(responses) /\ Len(responses') = n + 1 /\ responses'[n + 1] = e
        /\ \A i \in 1 .. n : responses'[i] = responses[i]
  <2>1. pr \in Pending /\ responses \in Seq(Response)
    BY DEF Types, DaemonType
  <2>2. PICK e \in Response : e = [ip |-> pr.ip, fields |-> pr.fields]
    BY <2>1 DEF Pending, Response
  <2>3. responses' = Append(responses, e)
    BY <2>2 DEF FlushEmit
  <2> QED BY <2>1, <2>2, <2>3
<1>3. e.fields = pr.fields
  BY <1>2
<1>4. /\ \A s : Timely(s)' <=> Timely(s)
      /\ \A g : Right(g)' <=> Right(g)
  BY <1>1 DEF Timely, Right
<1>5. Suffixes'
  BY <1>1, SuffixesKept DEF NameInv
<1>6. Resolved'
  <2>1. \A i \in 1 .. n : \A k \in 1 .. Len(responses'[i].fields) : Right(responses'[i].fields[k])
    BY <1>2 DEF NameInv, Resolved
  <2>2. \A k \in 1 .. Len(e.fields) : Right(e.fields[k])
    BY <1>3 DEF NameInv, Resolved
  <2>3. \A i \in 1 .. n + 1 : i \in 1 .. n \/ i = n + 1
    OBVIOUS
  <2>4. \A i \in 1 .. n + 1 : \A k \in 1 .. Len(responses'[i].fields) : Right(responses'[i].fields[k])
    BY <2>1, <2>2, <2>3, <1>2
  <2> QED BY <2>4, <1>1, <1>2, <1>4 DEF NameInv, Resolved
<1>7. \A s, c : Waits(s, c)' <=> Waits(s, c)
  BY <1>1 DEF Waits, InHand, StreamsOf
<1>8. \A c : currentBase(c)' = currentBase(c)
  BY <1>1 DEF currentBase
<1>9. Referred'
  BY <1>1, <1>4, <1>7, <1>8, ReferredKept DEF NameInv
<1> QED BY <1>5, <1>6, <1>9 DEF NameInv

\* The base of a response is taken when its first field is sent, with no change on its way: the
\* daemon has what the stream has inserted, and the same entries are as far from its end.
LEMMA FoundAtStart ==
  ASSUME Types, NEW s \in Streams, NEW c \in Conns, stream[s].conn = c, OwnEntries(s, c),
         \A i \in 1 .. Len(table_events) : table_events[i].conn # c,
         NEW k \in 1 .. Len(plan[s].reply), NEW x, x = plan[s].reply[k].index,
         x \in Nat, x < stream[s].inserted
  PROVE  /\ Len(table[s]) - x \in 1 .. Len(table[s])
         /\ Len(dynamicTables[c]) - x \in 1 .. Len(dynamicTables[c])
         /\ dynamicTables[c][Len(dynamicTables[c]) - x] = table[s][Len(table[s]) - x]
<1>1. PICK t \in Seq(Names), copy \in Seq(Names), l \in Nat, h \in Nat :
        t = table[s] /\ copy = dynamicTables[c] /\ l = Len(t) /\ h = Len(copy)
  <2>1. table[s] \in Seq(Names) /\ dynamicTables[c] \in Seq(Names)
    BY DEF Types, NginxType, DaemonType
  <2> QED BY <2>1
<1>2. PICK n \in Nat : n = stream[s].inserted
  BY DEF Types, NginxType, StreamRecord
<1>3. n <= l
  <2>1. stream[s].conn # None
    BY H3Assumption
  <2> QED BY <2>1, <1>1, <1>2 DEF Types, OwnObject
<1>4. PICK m \in Nat : m = Len(table_events)
  BY DEF Types, RingType
<1>5. Ahead(table_events, c, m) = 0
  BY <1>4, NoneAhead
<1>6. Arrived(t, copy, 0, n)
  BY <1>1, <1>2, <1>4, <1>5 DEF OwnEntries
<1>7. x \in 0 .. n - 0 - 1
  BY <1>2
<1>8. x < h /\ copy[h - x] = t[l - 0 - x]
  BY <1>1, <1>6, <1>7 DEF Arrived
<1>9. l - 0 - x = l - x /\ l - x \in 1 .. l /\ h - x \in 1 .. h
  <2>1. ASSUME NEW y \in Nat, x < y PROVE y - 0 - x = y - x /\ y - x \in 1 .. y
    BY <2>1
  <2>2. x < n
    BY <1>2
  <2>3. x < l
    BY <2>2, <1>3
  <2>4. x < h
    BY <1>8
  <2> QED BY <2>1, <2>3, <2>4
<1> QED BY <1>1, <1>8, <1>9

\* What Referred says of stream s and object c.
ReferredTo(s, c) ==
  /\ pendingResp[c] = None => \A i \in 1 .. Len(table_events) : table_events[i].conn # c
  /\ Found(s, c)
  /\ \A i \in 1 .. Len(resp_events) : \A f :
       f = resp_events[i] /\ f.conn = c => Refers(s, c, f)

LEMMA EncodedReferred ==
  ASSUME Types, ResponseInv, NameInv, NEW s \in Streams, NEW e \in RespEvent, NEW n \in Nat,
         Encoded(s, e, n), NameEncoded(s, e), Timely(s)', NEW c \in Conns, c = e.conn
  PROVE  ReferredTo(s, c)'
<1>1. /\ UNCHANGED <<plan, table, table_events, lostInserts, pendingResp, rev, dynamicTables>>
      /\ unclean \subseteq unclean' /\ shifted \subseteq shifted' /\ shared' = shared
  BY DEF Encoded, NameEncoded, daemonVars
<1>2. /\ s \notin unclean' /\ s \notin shifted' /\ s \notin lostInserts /\ s \notin shared
      /\ s \notin unclean /\ s \notin shifted /\ Timely(s)
  BY <1>1 DEF Timely
<1>3. /\ c = stream[s].conn /\ n = Len(resp_events)
      /\ Len(resp_events') = n + 1 /\ resp_events'[n + 1] = e
      /\ \A i \in 1 .. n : resp_events'[i] = resp_events[i]
      /\ stream[s].replied \in Nat /\ stream[s].st = "reply"
      /\ stream[s].replied + 1 <= Len(plan[s].reply)
      /\ \A r \in Streams : Waits(r, c) => r = s
  BY <1>2 DEF Encoded
<1>4. PICK b : b = Base(s) /\ stream'[s].base = b
  BY DEF NameEncoded
<1>5. Refers(s, c, e)'
  BY <1>1, <1>3, <1>4 DEF NameEncoded, Refers
<1>6. currentBase(c)' = currentBase(c)
  BY <1>1 DEF currentBase
<1>7. CASE Waits(s, c)
  <2>1. /\ pendingResp[c] = None => \A i \in 1 .. Len(table_events) : table_events[i].conn # c
        /\ Found(s, c)
        /\ \A i \in 1 .. Len(resp_events) : resp_events[i].conn = c => Refers(s, c, resp_events[i])
    BY <1>2, <1>7 DEF NameInv, Referred
  <2>2. stream[s].replied > 0
    BY <1>2, <1>7 DEF ResponseInv, Together
  <2>3. stream'[s].base = stream[s].base
    BY <2>2, <1>3, <1>4 DEF Base
  <2>4. Found(s, c)'
    BY <2>1, <2>3, <1>1, <1>6 DEF Found
  <2>5. \A f : Refers(s, c, f) => Refers(s, c, f)'
    BY <2>3, <1>1 DEF Refers
  <2>6. \A i \in 1 .. n + 1 : i \in 1 .. n \/ i = n + 1
    OBVIOUS
  <2>7. \A i \in 1 .. n + 1 : \A f :
          f = resp_events'[i] /\ f.conn = c => Refers(s, c, f)'
    BY <2>1, <2>5, <2>6, <1>3, <1>5
  <2> QED BY <2>1, <2>4, <2>7, <1>1, <1>3 DEF ReferredTo
<1>8. CASE ~Waits(s, c)
  <2>1. \A r \in Streams : ~Waits(r, c)
    BY <1>3, <1>8
  <2>2. pendingResp[c] = None /\ \A i \in 1 .. n : resp_events[i].conn # c
    BY <2>1, <1>3, NothingWaits
  <2>3. stream[s].replied = 0
    BY <1>2, <1>3, <1>8, PlanType DEF ResponseInv, Sending, Types
  <2>4. \A i \in 1 .. Len(table_events) : table_events[i].conn # c
    BY <2>3, <1>2 DEF NameEncoded
  <2>5. b = Len(table[s]) /\ currentBase(c) = Len(dynamicTables[c])
    BY <2>2, <2>3, <1>3, <1>4 DEF Base, currentBase
  <2>6. OwnEntries(s, c)
    <3>1. c # None
      BY H3Assumption
    <3> QED BY <3>1, <1>2, <1>3 DEF NameInv, Suffixes
  <2>7. Found(s, c)'
    <3> SUFFICES ASSUME NEW k \in 1 .. Len(plan[s].reply), plan[s].reply[k].dynamic,
                        NEW x, x = plan[s].reply[k].index
                 PROVE  /\ b - x \in 1 .. Len(table[s])
                        /\ currentBase(c) - x \in 1 .. Len(dynamicTables[c])
                        /\ dynamicTables[c][currentBase(c) - x] = table[s][b - x]
      BY <1>1, <1>4, <1>6 DEF Found
    <3>1. x < stream[s].inserted
      BY DEF NameEncoded
    <3>2. x \in Nat
      <4>1. plan[s].reply[k] \in References
        BY PlanType DEF Types
      <4> QED BY <4>1 DEF References
    <3>3. stream[s].conn = c
      BY <1>3
    <3>4. /\ Len(table[s]) - x \in 1 .. Len(table[s])
          /\ Len(dynamicTables[c]) - x \in 1 .. Len(dynamicTables[c])
          /\ dynamicTables[c][Len(dynamicTables[c]) - x] = table[s][Len(table[s]) - x]
      BY <3>1, <3>2, <3>3, <2>4, <2>6, FoundAtStart, ZenonT(60)
    <3> QED BY <3>4, <2>5
  <2>8. \A i \in 1 .. n + 1 : i \in 1 .. n \/ i = n + 1
    OBVIOUS
  <2>9. \A i \in 1 .. n + 1 : \A f :
          f = resp_events'[i] /\ f.conn = c => Refers(s, c, f)'
    BY <2>2, <2>8, <1>3, <1>5
  <2> QED BY <2>4, <2>7, <2>9, <1>1, <1>3 DEF ReferredTo
<1> QED BY <1>7, <1>8

LEMMA EncodeNames ==
  ASSUME Types, ResponseInv, NameInv, NEW w \in Workers, NEW s \in Streams, Encode(w, s),
         UNCHANGED daemonVars
  PROVE  NameInv'
<1>1. PICK e \in RespEvent, n \in Nat : Encoded(s, e, n) /\ NameEncoded(s, e)
  BY EncodeEffects
<1>2. PICK c \in Conns : c = e.conn /\ e.value[1] = s
  BY <1>1 DEF Encoded
<1>3. /\ UNCHANGED <<plan, table, table_events, lostInserts, pendingResp, rev, dynamicTables, toEmit,
                     responses>>
      /\ unclean \subseteq unclean' /\ shifted \subseteq shifted' /\ shared' = shared
      /\ \A r \in Streams \ {s} : stream'[r] = stream[r]
      /\ stream'[s].conn = stream[s].conn /\ stream'[s].inserted = stream[s].inserted
      /\ \A r \in Streams \ {s} : Waits(r, c) => r \in unclean'
      /\ s \notin unclean' => c = stream[s].conn
  BY <1>1, <1>2 DEF Encoded, NameEncoded, daemonVars
<1>4. \A r : Timely(r)' => Timely(r)
  BY <1>3 DEF Timely
<1>5. Suffixes'
  <2>1. \A r \in Streams :
          stream'[r].conn = stream[r].conn /\ stream'[r].inserted = stream[r].inserted
    BY <1>3
  <2> QED BY <2>1, <1>3, SuffixesKept DEF NameInv
<1>6. Resolved'
  BY <1>3, <1>4, ResolvedKept DEF NameInv
<1>7. ASSUME NEW r \in Streams, NEW d \in Conns, Timely(r)', Waits(r, d)' PROVE ReferredTo(r, d)'
  <2>1. Waits(r, d) \/ (r = s /\ d = c)
    BY <1>1, <1>2, <1>7, EncodedWaits
  <2>2. CASE r = s
    <3>1. c = stream[s].conn /\ stream[s].st = "reply"
      BY <2>2, <1>1, <1>3, <1>7 DEF Timely, Encoded
    <3>2. Waits(s, d) => d = stream[s].conn
      BY <3>1, <2>2, <1>4, <1>7 DEF Timely, ResponseInv, Together
    <3>3. d = c
      BY <3>1, <3>2, <2>1, <2>2
    <3> QED BY <3>3, <2>2, <1>1, <1>2, <1>7, EncodedReferred
  <2>3. CASE r # s
    <3>1. Waits(r, d) /\ d # c
      BY <2>1, <2>3, <1>3, <1>7 DEF Timely
    <3>2. /\ pendingResp[d] = None => \A i \in 1 .. Len(table_events) : table_events[i].conn # d
          /\ Found(r, d)
          /\ \A i \in 1 .. Len(resp_events) : resp_events[i].conn = d => Refers(r, d, resp_events[i])
      BY <3>1, <1>4, <1>7 DEF NameInv, Referred
    <3>3. stream'[r].base = stream[r].base
      BY <2>3, <1>3
    <3>4. currentBase(d)' = currentBase(d)
      BY <1>3 DEF currentBase
    <3>5. Found(r, d)'
      BY <3>2, <3>3, <3>4, <1>3 DEF Found
    <3>6. \A f : Refers(r, d, f) => Refers(r, d, f)'
      BY <3>3, <1>3 DEF Refers
    <3>7. ASSUME NEW i \in 1 .. Len(resp_events'), resp_events'[i].conn = d
          PROVE  i \in 1 .. Len(resp_events) /\ resp_events'[i] = resp_events[i]
      <4>1. /\ n = Len(resp_events)
            /\ \/ /\ Len(resp_events') = n + 1 /\ resp_events'[n + 1] = e
                  /\ \A j \in 1 .. n : resp_events'[j] = resp_events[j]
               \/ resp_events' = resp_events
        BY <1>1 DEF Encoded
      <4> QED BY <4>1, <3>1, <3>7, <1>2
    <3>8. \A i \in 1 .. Len(resp_events') : \A f :
            f = resp_events'[i] /\ f.conn = d => Refers(r, d, f)'
      BY <3>2, <3>6, <3>7
    <3> QED BY <3>2, <3>5, <3>8, <1>3 DEF ReferredTo
  <2> QED BY <2>2, <2>3
<1>8. Referred'
  BY <1>7 DEF Referred, ReferredTo
<1> QED BY <1>5, <1>6, <1>8 DEF NameInv

LEMMA ParseNames ==
  ASSUME Types, NameInv, NEW w \in Workers, Parse(w), UNCHANGED daemonVars
  PROVE  NameInv'
<1>1. /\ UNCHANGED <<dynamicTables, rev, pendingResp, toEmit, responses, unclean, shifted>>
      /\ shared \subseteq shared'
  BY DEF Parse, Enter, Return, daemonVars
<1>2. ASSUME NEW s \in Streams, NEW c \in Conns, entry_parse_headers(w, s, c) PROVE NameInv'
  <2>1. Only(s) /\ SameProgress(s) /\ stream'[s].conn = c
    BY <1>2, EntryStream DEF Types
  <2>2. stream[s].st = "new" \/ stream[s].conn = c
    BY <1>2 DEF entry_parse_headers
  <2>3. UNCHANGED <<plan, table, table_events, resp_events, lostInserts>>
    BY <1>2 DEF entry_parse_headers
  <2>4. stream[s].inserted = 0 \/ stream'[s].conn = stream[s].conn
    BY <2>1, <2>2 DEF Types, OwnObject
  <2> QED BY <2>1, <2>3, <2>4, <1>1, QuietNames DEF Only, SameProgress
<1>3. ASSUME ret_parse_headers_again(w) PROVE NameInv'
  <2>1. UNCHANGED <<plan, stream, table, table_events, resp_events, lostInserts>>
    BY <1>3 DEF ret_parse_headers_again
  <2> QED BY <2>1, <1>1, QuietNames
<1>4. ASSUME ret_parse_headers_error(w) PROVE NameInv'
  <2>1. PICK s \in Streams : stream' = Ended(s)
    BY <1>4, ParsedIsOwn DEF ret_parse_headers_error, Types
  <2>2. Only(s) /\ SameProgress(s) /\ stream'[s].conn = None
    BY <2>1, EndedStream DEF Types
  <2>3. UNCHANGED <<plan, table, table_events, resp_events, lostInserts>>
    BY <1>4 DEF ret_parse_headers_error
  <2> QED BY <2>2, <2>3, <1>1, QuietNames DEF Only, SameProgress
<1>5. ASSUME NEW rc \in {"ok", "done"}, ret_parse_headers(w, rc) PROVE NameInv'
  <2>1. PICK s \in Streams : s = Parsed(w)
    BY <1>5, ReturnEffect
  <2>2. /\ Only(s) /\ stream'[s].base = stream[s].base
        /\ stream'[s].conn = stream[s].conn /\ stream'[s].inserted = stream[s].inserted
    BY <2>1, <1>5, ReturnEffect
  <2>3. UNCHANGED <<plan, table, table_events, resp_events, lostInserts>>
    BY <1>5 DEF ret_parse_headers
  <2> QED BY <2>2, <2>3, <1>1, QuietNames DEF Only
<1> QED BY <1>2, <1>3, <1>4, <1>5 DEF Parse, Enter, Return

LEMMA CloseNames ==
  ASSUME Types, NameInv, NEW w \in Workers, NEW s \in Streams, Close(w, s), UNCHANGED daemonVars
  PROVE  NameInv'
<1>1. /\ stream' = Ended(s) /\ unclean \subseteq unclean'
      /\ UNCHANGED <<plan, table, table_events, resp_events, lostInserts, shifted, shared>>
  BY DEF Close, CloseStream
<1>2. Only(s) /\ SameProgress(s) /\ stream'[s].conn = None
  BY <1>1, EndedStream DEF Types
<1> QED BY <1>1, <1>2, QuietNames DEF Only, SameProgress, daemonVars

LEMMA ElapseNames ==
  ASSUME Types, NameInv, NEW c \in Conns, Elapse(c)
  PROVE  NameInv'
<1>1. /\ UNCHANGED <<plan, stream, table, table_events, dynamicTables, resp_events, rev, pendingResp,
                     toEmit, responses, shifted, shared, lostInserts>>
      /\ unclean \subseteq unclean'
  BY DEF Elapse, probeVars
<1> QED BY <1>1, QuietNames

LEMMA InitNames == Init => NameInv
<1> SUFFICES ASSUME Init PROVE NameInv
  OBVIOUS
<1>1. /\ resp_events = <<>> /\ rev = None /\ toEmit = {} /\ responses = <<>>
      /\ \A c \in Conns : pendingResp[c] = None
      /\ \A s \in Streams : stream[s].conn = None
  BY DEF Init, InitProbes, NewStream
<1>2. \A s, c : c \in Conns => ~Waits(s, c)
  BY <1>1 DEF Waits, InHand
<1>3. Suffixes
  BY <1>1 DEF Suffixes
<1>4. Resolved
  BY <1>1 DEF Resolved
<1> QED BY <1>2, <1>3, <1>4 DEF NameInv, Referred

LEMMA NamesStep == Types /\ Met /\ ResponseInv /\ NameInv /\ [Next]_vars => NameInv'
<1> SUFFICES ASSUME Types, Met, ResponseInv, NameInv, [Next]_vars PROVE NameInv'
  OBVIOUS
<1>1. ASSUME NEW w \in Workers, Nginx(w) PROVE NameInv'
  BY <1>1, ParseNames, EncodeNames, InsertNames, CloseNames, Zenon DEF Nginx
<1>2. CASE ReadReq
  <2>1. UNCHANGED <<plan, stream, table, table_events, dynamicTables, resp_events, rev, pendingResp,
                    toEmit, responses, unclean, shifted, shared, lostInserts>>
    BY <1>2 DEF ReadReq
  <2> QED BY <2>1, QuietNames
<1>3. CASE UNCHANGED vars
  <2>1. UNCHANGED <<plan, stream, table, table_events, dynamicTables, resp_events, rev, pendingResp,
                    toEmit, responses, unclean, shifted, shared, lostInserts>>
    BY <1>3 DEF vars, probeVars, daemonVars
  <2> QED BY <2>1, QuietNames
<1> QED BY <1>1, <1>2, <1>3, ReadTableNames, ReadRespNames, AppendRespNames, ElapseNames,
           FlushTakeNames, FlushEmitNames DEF Next

LEMMA NamesAlways == Spec => [](Types /\ NameInv)
<1>1. Types /\ Met /\ ResponseInv /\ NameInv /\ [Next]_vars => (Types /\ Met /\ ResponseInv /\ NameInv)'
  BY TypesStep, MetStep, ResponsesStep, NamesStep
<1>2. Init => Types /\ Met /\ ResponseInv /\ NameInv
  BY InitTypes, InitMet, InitResponses, InitNames
<1> QED BY <1>1, <1>2, PTL DEF Spec

(* Although the table comes through a ring buffer of its own, keeps what     *)
(* earlier users of the address have inserted and grows while a response is  *)
(* pending: the name of a response field is the one that nginx refers to,    *)
(* unless a change was on its way together with the first field, or another  *)
(* worker has had an object at the same address at the same time             *)
(* (currentBase, resolveIndexed).                                            *)
THEOREM NamesAreResolved == Spec => []NamesResolved
<1>1. NameInv => NamesResolved
  BY DEF NameInv, Resolved, Right, Timely, NamesResolved
<1> QED BY <1>1, NamesAlways, PTL

-----------------------------------------------------------------------------
(* Tables: a stream's table is what it has inserted, whoever had its object *)
(* before.                                                                  *)

Counted == \A s \in Streams : Len(table[s]) = stream[s].inserted

LEMMA CountedStep == Types /\ Counted /\ [Next]_vars => Counted'
<1> SUFFICES ASSUME Types, Counted, [Next]_vars PROVE Counted'
  OBVIOUS
<1>1. ASSUME NEW w \in Workers, Parse(w) PROVE Counted'
  <2>1. table' = table
    BY <1>1 DEF Parse, Enter, Return, entry_parse_headers, ret_parse_headers_again,
                ret_parse_headers_error, ret_parse_headers
  <2>2. ASSUME NEW s \in Streams, NEW c \in Conns, entry_parse_headers(w, s, c)
        PROVE  \A r \in Streams : stream'[r].inserted = stream[r].inserted
    BY <2>2, EntryStream DEF Types, Only, SameProgress
  <2>3. ASSUME ret_parse_headers_again(w) PROVE UNCHANGED stream
    BY <2>3 DEF ret_parse_headers_again
  <2>4. ASSUME ret_parse_headers_error(w)
        PROVE  \A r \in Streams : stream'[r].inserted = stream[r].inserted
    <3>1. PICK s \in Streams : stream' = Ended(s)
      BY <2>4, ParsedIsOwn DEF ret_parse_headers_error, Types
    <3> QED BY <3>1, EndedStream DEF Types, Only, SameProgress
  <2>5. ASSUME NEW rc \in {"ok", "done"}, ret_parse_headers(w, rc)
        PROVE  \A r \in Streams : stream'[r].inserted = stream[r].inserted
    <3>1. PICK s \in Streams : s = Parsed(w)
      BY <2>5, ReturnEffect
    <3> QED BY <3>1, <2>5, ReturnEffect DEF Only
  <2> QED BY <1>1, <2>1, <2>2, <2>3, <2>4, <2>5 DEF Parse, Enter, Return, Counted
<1>2. ASSUME NEW w \in Workers, NEW s \in Streams, Encode(w, s), UNCHANGED daemonVars PROVE Counted'
  <2>1. PICK e \in RespEvent, n \in Nat : Encoded(s, e, n) /\ NameEncoded(s, e)
    BY <1>2, EncodeEffects
  <2>2. table' = table
    BY <1>2 DEF Encode, entry_encode_field_lri
  <2>3. /\ \A r \in Streams \ {s} : stream'[r] = stream[r]
        /\ stream'[s].inserted = stream[s].inserted
    BY <2>1 DEF Encoded, NameEncoded
  <2> QED BY <2>2, <2>3 DEF Counted
<1>3. ASSUME NEW w \in Workers, NEW s \in Streams, TableOp(w, s) PROVE Counted'
  <2>1. /\ stream' = [stream EXCEPT ![s].inserted = stream[s].inserted + 1]
        /\ table' = [table EXCEPT ![s] = Append(@, NameInserted(s, stream[s].inserted + 1))]
    BY <1>3 DEF TableOp, entry_table
  <2>2. stream \in [Streams -> StreamRecord] /\ table \in [Streams -> Seq(Names)]
    BY DEF Types, NginxType
  <2>3. /\ stream'[s].inserted = stream[s].inserted + 1
        /\ \A r \in Streams \ {s} : stream'[r] = stream[r]
    BY <2>1, <2>2 DEF StreamRecord
  <2>4. Len(table'[s]) = Len(table[s]) + 1 /\ \A r \in Streams \ {s} : table'[r] = table[r]
    BY <2>1, <2>2
  <2> QED BY <2>3, <2>4 DEF Counted
<1>4. ASSUME NEW w \in Workers, NEW s \in Streams, Close(w, s) PROVE Counted'
  <2>1. stream' = Ended(s) /\ table' = table
    BY <1>4 DEF Close, CloseStream
  <2> QED BY <2>1, EndedStream DEF Types, Only, SameProgress, Counted
<1>5. ASSUME NEW w \in Workers, Nginx(w) PROVE Counted'
  BY <1>5, <1>1, <1>2, <1>3, <1>4 DEF Nginx
<1>6. ASSUME UNCHANGED <<stream, table>> PROVE Counted'
  BY <1>6 DEF Counted
<1>7. ReadReq \/ ReadTable \/ ReadResp => UNCHANGED <<stream, table>>
  BY DEF ReadReq, ReadTable, ReadResp
<1>8. appendRespField \/ FlushTake => UNCHANGED <<stream, table>>
  BY DEF appendRespField, FlushTake, probeVars
<1>9. ASSUME NEW pr \in toEmit, FlushEmit(pr) PROVE UNCHANGED <<stream, table>>
  BY <1>9 DEF FlushEmit, probeVars
<1>10. ASSUME NEW c \in Conns, Elapse(c) PROVE UNCHANGED <<stream, table>>
  BY <1>10 DEF Elapse, probeVars
<1>11. UNCHANGED vars => UNCHANGED <<stream, table>>
  BY DEF vars, probeVars
<1> QED BY <1>5, <1>6, <1>7, <1>8, <1>9, <1>10, <1>11, Zenon DEF Next

(* The daemon's copy of a table ends with what the stream that has the       *)
(* object has put in it some events ago, whatever was lost to earlier users  *)
(* of the address and whatever they have left there: an instruction finds    *)
(* the entry it refers to. Streams that have lost an event themselves, or    *)
(* met another worker's at their address, are excepted (tableEventLoop,      *)
(* resolveLive).                                                             *)
THEOREM TablesInStep == Spec => []TableInStep
<1>1. ASSUME Types, Counted, NameInv PROVE TableInStep
  <2> SUFFICES ASSUME NEW s \in Streams \ (lostInserts \cup shared), stream[s].conn # None
               PROVE  LET copy == dynamicTables[stream[s].conn]
                          arrived == Len(table[s])
                                       - Ahead(table_events, stream[s].conn, Len(table_events)) IN
                      \A i \in 1 .. arrived :
                        arrived <= Len(copy) /\ copy[Len(copy) - arrived + i] = table[s][i]
    BY DEF TableInStep, Ahead, OfConn
  <2>1. PICK c \in Conns : c = stream[s].conn
    BY <1>1 DEF Types, NginxType, StreamRecord
  <2>2. PICK a \in Nat : a = Ahead(table_events, c, Len(table_events))
    <3>1. Len(table_events) \in Nat
      BY <1>1 DEF Types, RingType
    <3> QED BY <3>1, AheadType
  <2>3. PICK t \in Seq(Names), copy \in Seq(Names), l \in Nat, h \in Nat :
          t = table[s] /\ copy = dynamicTables[c] /\ l = Len(t) /\ h = Len(copy)
    <3>1. table[s] \in Seq(Names) /\ dynamicTables[c] \in Seq(Names)
      BY <1>1 DEF Types, NginxType, DaemonType
    <3> QED BY <3>1
  <2>4. Arrived(t, copy, a, l)
    <3>1. OwnEntries(s, c)
      BY <1>1, <2>1 DEF NameInv, Suffixes
    <3>2. stream[s].inserted = l
      BY <1>1, <2>3 DEF Counted
    <3> QED BY <3>1, <3>2, <2>2, <2>3 DEF OwnEntries
  <2>5. ASSUME NEW i \in 1 .. l - a PROVE l - a <= h /\ copy[h - (l - a) + i] = t[i]
    <3>1. /\ i \in Nat /\ i >= 1 /\ i <= l - a /\ a \in Nat /\ l \in Nat /\ h \in Nat
          /\ Len(t) = l /\ Len(copy) = h
      BY <2>2, <2>3, <2>5
    <3>2. \A x \in 0 .. l - a - 1 : x < h /\ copy[h - x] = t[l - a - x]
      BY <2>4, <3>1 DEF Arrived
    <3>3. PICK y \in 0 .. l - a - 1 : y = l - a - 1
      BY <3>1
    <3>4. y < h
      BY <3>2
    <3>5. l - a <= h
      BY ONLY <3>1, <3>3, <3>4
    <3>6. PICK x \in 0 .. l - a - 1 : x = l - a - i
      BY <3>1
    <3>7. h - x = h - (l - a) + i /\ l - a - x = i
      BY ONLY <3>1, <3>6
    <3>8. copy[h - x] = t[l - a - x]
      BY <3>2
    <3> QED BY <3>5, <3>7, <3>8
  <2> QED BY <2>1, <2>2, <2>3, <2>5
<1>2. Init => Counted
  BY DEF Init, InitProbes, NewStream, Counted
<1>3. (Types /\ NameInv) /\ (Types /\ NameInv)' /\ Counted /\ [Next]_vars => Counted'
  BY CountedStep
<1> QED BY <1>1, <1>2, <1>3, NamesAlways, PTL DEF Spec

=============================================================================
