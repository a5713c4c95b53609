----------------------------- MODULE H3Sniffer -----------------------------
(****************************************************************************)
(* The daemon's side of the HTTP/3 capture                                  *)
(* (internal/http3_sniffer/http3_sniffer.go): four goroutines that share    *)
(* the pending requests and responses and the copies of the dynamic tables, *)
(* all keyed by the address of a connection object, under one lock.         *)
(* reqEventLoop, respEventLoop and tableEventLoop read a ring buffer each,  *)
(* and flushIdleResponses emits what has not grown for 50 ms, because       *)
(* nothing tells the end of a response.                                     *)
(****************************************************************************)
EXTENDS H3Probes

VARIABLES
  pendingReq,     \* object -> [ip, fields]
  pendingResp,    \* object -> [ip, base, fields]
  dynamicTables,  \* object -> names
  rev,            \* the event respEventLoop is at, with the name it has found
  idle,           \* objects whose pending response has not grown for flushIdleAfter
  toEmit,         \* what flushIdleResponses has taken and not yet emitted
  requests,       \* what emitRequest went on with, in order
  responses,      \* the same for emitResponse
  unclean,        \* history: streams whose response came too slowly or too close to another
  shifted,        \* history: streams whose table changed too close to their response
  shared          \* history: streams that met one of another worker at their address

daemonVars == <<pendingReq, pendingResp, dynamicTables, rev, idle, toEmit, requests, responses>>
vars == <<probeVars, daemonVars, unclean, shifted, shared>>

Init ==
  /\ InitProbes
  /\ pendingReq = [c \in Conns |-> None]
  /\ pendingResp = [c \in Conns |-> None]
  /\ dynamicTables = [c \in Conns |-> <<>>]
  /\ rev = None
  /\ idle = {} /\ toEmit = {}
  /\ requests = <<>> /\ responses = <<>>
  /\ unclean = {} /\ shifted = {} /\ shared = {}

-----------------------------------------------------------------------------
(* reqEventLoop. Only this goroutine touches the pending requests, so that  *)
(* one turn is one step.                                                    *)

\* appendReqField: the address is that of the first field.
WithField(pr, e) ==
  IF e.field = None THEN pr
  ELSE IF pr = None THEN [ip |-> e.ip, fields |-> <<e.field>>]
  ELSE [pr EXCEPT !.fields = Append(@, e.field)]

\* Variant: the fields stay pending.
emitRequest_keeps(c, pr) ==
  /\ pendingReq' = [pendingReq EXCEPT ![c] = pr]
  /\ requests' = IF pr = None THEN requests ELSE Append(requests, pr)
\* Variant: one field is taken for none.
emitRequest_off_by_one(c, pr) ==
  /\ pendingReq' = [pendingReq EXCEPT ![c] = None]
  /\ requests' = IF pr = None \/ Len(pr.fields) <= 1 THEN requests ELSE Append(requests, pr)
\* emitRequest begins with takeReqFields, and returns when nothing is pending.
\* What it does then is in Pipeline.
emitRequest(c, pr) ==
  /\ pendingReq' = [pendingReq EXCEPT ![c] = None]
  /\ requests' = IF pr = None THEN requests ELSE Append(requests, pr)

ReadReq ==
  /\ events # <<>>
  /\ events' = Tail(events)
  /\ LET e == Head(events)
         pr == WithField(pendingReq[e.conn], e) IN
       \/ e.ret = "done" /\ emitRequest(e.conn, pr)
       \/ /\ e.ret = "ok"
          /\ pendingReq' = [pendingReq EXCEPT ![e.conn] = pr]
          /\ UNCHANGED requests
  /\ UNCHANGED <<plan, stream, table, h3Maps, resp_events, table_events, broken, lostInserts,
                 pendingResp, dynamicTables, rev, idle, toEmit, responses, unclean, shifted, shared>>

-----------------------------------------------------------------------------
(* tableEventLoop, with resolveLive and tableInsert. The lock is released   *)
(* between the two, but no other goroutine adds to a table.                 *)

Unresolved == <<"unresolved", 0>>
Static(index) == IF index < StaticLen THEN StaticName(index) ELSE Unresolved

\* Variant: one entry too far back.
resolveLive_off_by_one(c, dynamic, index) ==
  LET t == dynamicTables[c] IN
  IF ~dynamic THEN Static(index)
  ELSE IF index < Len(t) - 1 THEN t[Len(t) - 1 - index] ELSE Unresolved
resolveLive(c, dynamic, index) ==
  LET t == dynamicTables[c] IN
  IF ~dynamic THEN Static(index)
  ELSE IF index < Len(t) THEN t[Len(t) - index] ELSE Unresolved

NameToInsert(e) ==
  CASE e.op = "insert" -> e.name
    [] e.op = "ref_insert" -> resolveLive(e.conn, e.dynamic, e.index)
    [] e.op = "duplicate" -> resolveLive(e.conn, TRUE, e.index)

\* A name that cannot be resolved is only logged.
ReadTable ==
  /\ table_events # <<>>
  /\ table_events' = Tail(table_events)
  /\ LET e == Head(table_events) IN
       dynamicTables' = IF NameToInsert(e) = Unresolved THEN dynamicTables
                        ELSE [dynamicTables EXCEPT ![e.conn] = Append(@, NameToInsert(e))]
  /\ UNCHANGED <<plan, stream, table, h3Maps, events, resp_events, broken, lostInserts, pendingReq,
                 pendingResp, rev, idle, toEmit, requests, responses, unclean, shifted, shared>>

-----------------------------------------------------------------------------
(* respEventLoop. It takes the lock three times: for currentBase, for       *)
(* resolveIndexed, and for appendRespField. Tables only grow, so that the   *)
(* second finds the same whether anything happens before it or not.         *)

\* Variant: the base moves while the response is pending.
currentBase_moves(c) == Len(dynamicTables[c])
currentBase(c) ==
  IF pendingResp[c] # None THEN pendingResp[c].base ELSE Len(dynamicTables[c])

resolveIndexed(c, dynamic, index, base) ==
  LET t == dynamicTables[c] IN
  IF ~dynamic THEN Static(index)
  ELSE IF base - index \in 1 .. Len(t) THEN t[base - index] ELSE Unresolved

ReadResp ==
  /\ rev = None
  /\ resp_events # <<>>
  /\ resp_events' = Tail(resp_events)
  /\ LET e == Head(resp_events) IN
       rev' = [conn |-> e.conn, ip |-> e.ip,
               field |-> [name |-> resolveIndexed(e.conn, e.dynamic, e.index, currentBase(e.conn)),
                          means |-> e.means, value |-> e.value]]
  /\ UNCHANGED <<plan, stream, table, h3Maps, events, table_events, broken, lostInserts, pendingReq,
                 pendingResp, dynamicTables, idle, toEmit, requests, responses, unclean, shifted, shared>>

appendRespField ==
  LET c == rev.conn
      new == [ip |-> rev.ip, base |-> Len(dynamicTables[c]), fields |-> <<>>]
      pr == IF pendingResp[c] = None THEN new ELSE pendingResp[c] IN
  /\ rev # None
  /\ pendingResp' =
       [pendingResp EXCEPT ![c] = [pr EXCEPT !.fields = Append(pr.fields, rev.field)]]
  /\ idle' = idle \ {c}
  /\ rev' = None
  /\ UNCHANGED <<probeVars, pendingReq, dynamicTables, toEmit, requests, responses, unclean, shifted, shared>>

-----------------------------------------------------------------------------
(* flushIdleResponses takes what is idle under the lock, and emits it       *)
(* without.                                                                 *)

StreamsOf(fields) == {fields[i].value[1] : i \in 1 .. Len(fields)}
FieldsOf(s, fields) == Cardinality({i \in 1 .. Len(fields) : fields[i].value[1] = s})

\* 50 ms pass without a new field; unclean notes the responses that had not come
\* to their end.
Elapse(c) ==
  /\ pendingResp[c] # None /\ c \notin idle
  /\ idle' = idle \cup {c}
  /\ LET fields == pendingResp[c].fields IN
       unclean' = unclean \cup {s \in StreamsOf(fields) : FieldsOf(s, fields) < Len(plan[s].reply)}
  /\ UNCHANGED <<probeVars, pendingReq, pendingResp, dynamicTables, rev, toEmit, requests,
                 responses, shifted, shared>>

\* Variant: everything pending is taken when something is idle.
FlushTake_all ==
  /\ toEmit = {}
  /\ idle # {}
  /\ toEmit' = {pendingResp[c] : c \in {x \in Conns : pendingResp[x] # None}}
  /\ pendingResp' = [c \in Conns |-> None]
  /\ idle' = {}
  /\ UNCHANGED <<probeVars, pendingReq, dynamicTables, rev, requests, responses, unclean, shifted, shared>>
FlushTake ==
  /\ toEmit = {}
  /\ idle # {}
  /\ toEmit' = {pendingResp[c] : c \in idle}
  /\ pendingResp' = [c \in Conns |-> IF c \in idle THEN None ELSE pendingResp[c]]
  /\ idle' = {}
  /\ UNCHANGED <<probeVars, pendingReq, dynamicTables, rev, requests, responses, unclean, shifted, shared>>

\* emitResponse; its masking and logging are in Pipeline.
FlushEmit(pr) ==
  /\ pr \in toEmit
  /\ toEmit' = toEmit \ {pr}
  /\ responses' = Append(responses, [ip |-> pr.ip, fields |-> pr.fields])
  /\ UNCHANGED <<probeVars, pendingReq, pendingResp, dynamicTables, rev, idle, requests,
                 unclean, shifted, shared>>

-----------------------------------------------------------------------------
(* nginx, with the history of what comes too close.                         *)

\* Streams with response fields under object c that have not been taken to emit.
Unflushed(c) ==
  {resp_events[i].value[1] : i \in {j \in 1 .. Len(resp_events) : resp_events[j].conn = c}}
  \cup (IF rev # None /\ rev.conn = c THEN {rev.field.value[1]} ELSE {})
  \cup (IF pendingResp[c] # None THEN StreamsOf(pendingResp[c].fields) ELSE {})

\* A field goes astray when its thread has parsed the headers of another stream
\* since, when the ring buffer is full, or when it meets those of another stream.
Encode(w, s) ==
  LET c == pid_conn_map[w]
      others == Unflushed(c) \ {s} IN
  /\ entry_encode_field_lri(w, s)
  /\ unclean' = unclean \cup (IF others = {} THEN {} ELSE others \cup {s})
                  \cup (IF c # stream[s].conn \/ ~HasRoom(resp_events) THEN {s} ELSE {})
  /\ shifted' = IF stream[s].replied = 0 /\ \E i \in 1 .. Len(table_events) : table_events[i].conn = c
                THEN shifted \cup {s} ELSE shifted
  /\ UNCHANGED shared

\* An insert is in time before the response or once its first field has been kept,
\* with the base.
FirstFieldUnderway(c) ==
  {s \in Streams :
     \/ \E i \in 1 .. Len(resp_events) : resp_events[i].conn = c /\ resp_events[i].value = <<s, 1>>
     \/ rev # None /\ rev.conn = c /\ rev.field.value = <<s, 1>>}
TableOp(w, s) ==
  /\ entry_table(w, s)
  /\ shifted' = shifted \cup FirstFieldUnderway(stream[s].conn)
  /\ UNCHANGED <<unclean, shared>>

Close(w, s) ==
  /\ CloseStream(w, s)
  /\ unclean' = IF stream[s].replied \in 1 .. Len(plan[s].reply) - 1 THEN unclean \cup {s} ELSE unclean
  /\ UNCHANGED <<shifted, shared>>

\* The streams that have an object at address c, of any worker.
At(c) == {s \in Streams : stream[s].conn = c}
Enter(w, s, c) ==
  /\ entry_parse_headers(w, s, c)
  /\ shared' = IF At(c) \subseteq {s} THEN shared ELSE shared \cup At(c) \cup {s}
  /\ UNCHANGED <<unclean, shifted>>

Return(w) ==
  /\ \/ ret_parse_headers_again(w)
     \/ ret_parse_headers_error(w)
     \/ \E rc \in {"ok", "done"} : ret_parse_headers(w, rc)
  /\ UNCHANGED <<unclean, shifted, shared>>

Parse(w) == (\E s \in Streams, c \in Conns : Enter(w, s, c)) \/ Return(w)

Nginx(w) ==
  /\ \/ Parse(w)
     \/ \E s \in Streams : Encode(w, s) \/ TableOp(w, s) \/ Close(w, s)
  /\ UNCHANGED daemonVars

Next ==
  \/ \E w \in Workers : Nginx(w)
  \/ ReadReq \/ ReadTable \/ ReadResp \/ appendRespField
  \/ FlushTake \/ \E pr \in toEmit : FlushEmit(pr)
  \/ \E c \in Conns : Elapse(c)

\* The goroutines run, and time passes; nothing is asked of nginx.
Fairness ==
  /\ WF_vars(ReadReq) /\ WF_vars(ReadTable) /\ WF_vars(ReadResp \/ appendRespField)
  /\ WF_vars(FlushTake \/ \E pr \in toEmit : FlushEmit(pr))
  /\ \A c \in Conns : WF_vars(Elapse(c))

Spec == Init /\ [][Next]_vars /\ Fairness

-----------------------------------------------------------------------------
(* Properties.                                                              *)

Fields == Streams \X (Nat \ {0})
Names == Fields \cup {StaticName(i) : i \in 0 .. StaticLen - 1}
Ips == {Addr[s] : s \in Streams} \cup {None}
Request == [ip : Ips, fields : Seq(Fields)]
Meanings == Fields \cup ({"static"} \X Nat)
RespField == [name : Meanings \cup {Unresolved}, means : Meanings, value : Fields]
Pending == [ip : Ips, base : Nat, fields : Seq(RespField)]
Reading == [conn : Conns, ip : Ips, field : RespField]

ASSUME NoneAssumption == None \notin Fields \cup Request \cup Pending \cup Reading

TypeOK ==
  /\ stream \in [Streams -> [st : {"new", "headers", "reply", "closed"},
                             w : Workers \cup {None}, conn : Conns \cup {None},
                             fields : Nat, base : Nat, replied : Nat, inserted : Nat]]
  /\ st_map \in [Workers -> Conns \cup {None}]
  /\ pid_conn_map \in [Workers -> Conns \cup {None}]
  /\ \A ring \in {events, resp_events, table_events} : Len(ring) <= MaxRing
  /\ \A c \in Conns : /\ pendingReq[c] # None => pendingReq[c].fields # <<>>
                      /\ pendingResp[c] # None => pendingResp[c].fields # <<>>
                      /\ \A i \in 1 .. Len(dynamicTables[c]) : dynamicTables[c][i] \in Names
  /\ idle \subseteq {c \in Conns : pendingResp[c] # None}

RequestStreams(r) == {r.fields[i][1] : i \in 1 .. Len(r.fields)}
WholeRequest(s) == [ip |-> Addr[s], fields |-> [k \in 1 .. plan[s].request |-> <<s, k>>]]

\* Requests in which a field of another one may have ended up: fields pending
\* under an address that two workers have an object at, or left there by a stream
\* that was aborted or lost an event.
Mixable == broken \cup shared

\* However the fields of several streams are interleaved and addresses used again,
\* by one worker or by several, one after the other, a request is analysed and logged
\* once, with all of its own fields and nothing else, as a request of its own client.
\* What is excepted does happen: what an aborted stream or a lost event has left
\* pending is taken for the beginning of the next request under the address, and
\* streams of two workers with objects at one address at the same time
\* get requests made of the fields of both, because the daemon has nothing but the
\* address to tell them apart
\* (internal/http3_sniffer/http3_sniffer.go, appendReqField, takeReqFields and
\* emitRequest). A stream without such a neighbour is in one request even then.
RequestsWhole ==
  /\ \A i \in 1 .. Len(requests) :
       RequestStreams(requests[i]) \cap Mixable = {}
         => \E s \in Streams : requests[i] = WholeRequest(s)
  /\ \A i, j \in 1 .. Len(requests) :
       i # j => RequestStreams(requests[i]) \cap RequestStreams(requests[j]) \subseteq shared

\* A response that was encoded without a pause of 50 ms, with no other response
\* under the same object before it was flushed and no other stream parsed by the
\* thread in between, is logged once, whole and in order, with its own client
\* (flushIdleResponses, appendRespField).
ResponsesWhole ==
  /\ \A i \in 1 .. Len(responses) : \A s \in StreamsOf(responses[i].fields) \ unclean :
       /\ responses[i].ip = Addr[s]
       /\ [k \in 1 .. Len(responses[i].fields) |-> responses[i].fields[k].value]
            = [k \in 1 .. Len(plan[s].reply) |-> <<s, k>>]
  /\ \A i, j \in 1 .. Len(responses) :
       i # j => StreamsOf(responses[i].fields) \cap StreamsOf(responses[j].fields) \subseteq unclean

\* The name of a response field is the one that nginx refers to, although
\* the table comes through another ring buffer, keeps the entries of earlier users
\* of the address, and may grow while the response is pending. The exceptions are a
\* change that is still on its way when the first field is, and the table of another
\* worker's object at the same address, which the daemon takes for the same table
\* (currentBase, resolveIndexed).
NamesResolved ==
  \A i \in 1 .. Len(responses) : \A k \in 1 .. Len(responses[i].fields) :
    LET f == responses[i].fields[k] IN
    f.value[1] \notin unclean \cup shifted \cup lostInserts \cup shared => f.name = f.means

\* The daemon's copy of a table ends with what the stream that has the object has
\* put in it some events ago, whatever earlier users of the address have left there,
\* unless an event was lost or two workers fill the copy: an instruction
\* that refers to an entry finds it (tableEventLoop, resolveLive).
TableInStep ==
  \A s \in Streams \ (lostInserts \cup shared) :
    stream[s].conn # None =>
      LET copy == dynamicTables[stream[s].conn]
          onTheirWay == {i \in 1 .. Len(table_events) : table_events[i].conn = stream[s].conn}
          arrived == Len(table[s]) - Cardinality(onTheirWay) IN
      \A i \in 1 .. arrived :
        arrived <= Len(copy) /\ copy[Len(copy) - arrived + i] = table[s][i]

\* Nothing stays behind: again and again no event and no response is pending, every
\* request that nginx has parsed to its end has been analysed and logged, and so
\* has every response of which no part was lost or went astray.
AllReported ==
  /\ events = <<>> /\ resp_events = <<>> /\ table_events = <<>>
  /\ rev = None /\ toEmit = {} /\ \A c \in Conns : pendingResp[c] = None
  /\ \A s \in Streams \ broken :
       stream[s].st = "reply" /\ plan[s].request > 0
         => \E i \in 1 .. Len(requests) : s \in RequestStreams(requests[i])
  /\ \A s \in Streams \ unclean :
       stream[s].replied > 0
         => \E i \in 1 .. Len(responses) : s \in StreamsOf(responses[i].fields)
EverythingReported == []<>AllReported

=============================================================================
