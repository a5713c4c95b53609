------------------------------ MODULE H3Probes ------------------------------
(****************************************************************************)
(* The kernel side of the HTTP/3 capture (bpf/http3_headers.bpf.c): probes  *)
(* on the QPACK functions of nginx, the maps that tell which connection     *)
(* object a thread works on, and three ring buffers, one for the fields of  *)
(* requests, one for those of responses and one for the dynamic table.      *)
(*                                                                          *)
(* nginx is the environment: single-threaded workers that parse requests    *)
(* field by field, as they arrive, encode responses and receive table       *)
(* instructions, for several streams in turn. A stream has a connection     *)
(* object, whose address is used again after the stream has ended. The      *)
(* workers are processes: streams that one of them has open at the same     *)
(* time have different addresses, those of two of them may have the same,   *)
(* and no event says which process it comes from. A stream refers to what   *)
(* it has put in the table of its object itself, as the daemon takes it to: *)
(* whether nginx does the same is not in these sources. The k-th field of   *)
(* stream s stands for itself as <<s, k>>, a name in the table for the      *)
(* instruction that brought it, and request ids, which are only printed,    *)
(* are left out.                                                            *)
(****************************************************************************)
EXTENDS Naturals, Sequences, FiniteSets

CONSTANTS
  Streams,
  Workers,       \* nginx worker processes (one thread each)
  Conns,         \* addresses of connection objects
  None,          \* no entry in a map; an empty field or address
  Addr,          \* the client address of each stream
  Plans,         \* what the streams do: functions from streams to [request, reply, table]
  StaticLen,     \* entries of the static table
  MaxRing        \* events that fit in each ring buffer

References == [dynamic : BOOLEAN, index : Nat]
Instructions == [op : {"insert", "ref_insert", "duplicate"}, dynamic : BOOLEAN, index : Nat]

\* The k-th instruction of a stream names an entry that is there: nginx ends a
\* connection whose client refers to another. It counts on none but its own.
\* What nginx sends refers only to static entries that exist.
Resolvable(i, k) ==
  CASE i.op = "insert" -> TRUE
    [] i.op = "ref_insert" /\ ~i.dynamic -> i.index < StaticLen
    [] OTHER -> i.index + 1 < k

ASSUME H3Assumption ==
  /\ None \notin Streams \cup Workers \cup Conns
  /\ MaxRing \in Nat \ {0} /\ StaticLen \in Nat
  /\ \A p \in Plans, s \in Streams :
       /\ p[s].request \in Nat
       /\ p[s].reply \in Seq(References)
       /\ p[s].table \in Seq(Instructions)
       /\ \A k \in 1 .. Len(p[s].table) : Resolvable(p[s].table[k], k)
       /\ \A k \in 1 .. Len(p[s].reply) : p[s].reply[k].dynamic \/ p[s].reply[k].index < StaticLen

VARIABLES
  plan,          \* how many header fields the request of a stream has, the fields [dynamic,
                 \* index] of its response, and its table instructions [op, dynamic, index]
  stream,        \* nginx: state, worker, connection object and progress of each stream
  table,         \* nginx: names each stream has put in the dynamic table of its object
  st_map,        \* the object of the ngx_http_v3_parse_headers call a thread is in
  pid_conn_map,  \* the object of the last such call of a thread
  events, resp_events, table_events,
  broken,        \* history: streams that ended before their last field, or lost a field event
  lostInserts    \* history: streams that lost a table event

h3Maps == <<st_map, pid_conn_map>>
probeVars == <<plan, stream, table, h3Maps, events, resp_events, table_events, broken, lostInserts>>

NewStream == [st |-> "new", w |-> None, conn |-> None, fields |-> 0, base |-> 0,
              replied |-> 0, inserted |-> 0]
Ended(s) == [stream EXCEPT ![s].st = "closed", ![s].w = None, ![s].conn = None]

InitProbes ==
  /\ plan \in Plans
  /\ stream = [s \in Streams |-> NewStream]
  /\ table = [s \in Streams |-> <<>>]
  /\ st_map = [w \in Workers |-> None]
  /\ pid_conn_map = [w \in Workers |-> None]
  /\ events = <<>> /\ resp_events = <<>> /\ table_events = <<>>
  /\ broken = {} /\ lostInserts = {}

\* The stream that has the object at address c of worker w.
Holders(w, c) == {s \in Streams : stream[s].conn = c /\ stream[s].w = w}
Parsed(w) == CHOOSE s \in Streams : s \in Holders(w, st_map[w])

\* read_conn_ip: the text in the object as it is now.
AddrText(w, c) == IF Holders(w, c) = {} THEN None ELSE Addr[CHOOSE s \in Holders(w, c) : TRUE]

\* Variant: room for one more event than there is.
HasRoom_one_more(ring) == Len(ring) <= MaxRing
HasRoom(ring) == Len(ring) < MaxRing

-----------------------------------------------------------------------------
(* Requests: ngx_http_v3_parse_headers is called again for every field, and *)
(* whenever more of one has arrived.                                        *)

entry_parse_headers(w, s, c) ==
  /\ st_map[w] = None
  /\ \/ stream[s].st = "new" /\ Holders(w, c) = {}
     \/ stream[s].st = "headers" /\ stream[s].conn = c /\ stream[s].w = w
  /\ stream' = [stream EXCEPT ![s].st = "headers", ![s].conn = c, ![s].w = w]
  /\ st_map' = [st_map EXCEPT ![w] = c]
  /\ pid_conn_map' = [pid_conn_map EXCEPT ![w] = c]
  /\ UNCHANGED <<plan, table, events, resp_events, table_events, broken, lostInserts>>

\* The call returns NGX_AGAIN.
ret_parse_headers_again(w) ==
  /\ st_map[w] # None
  /\ st_map' = [st_map EXCEPT ![w] = None]
  /\ UNCHANGED <<plan, stream, table, pid_conn_map, events, resp_events, table_events, broken, lostInserts>>

\* The call fails and nginx drops the stream.
ret_parse_headers_error(w) ==
  LET s == Parsed(w) IN
  /\ st_map[w] # None
  /\ st_map' = [st_map EXCEPT ![w] = None]
  /\ stream' = Ended(s)
  /\ broken' = IF stream[s].fields > 0 THEN broken \cup {s} ELSE broken
  /\ UNCHANGED <<plan, table, pid_conn_map, events, resp_events, table_events, lostInserts>>

\* NGX_OK brings a field, and NGX_DONE the last one, or none after the last. A
\* full ring buffer loses the event.
ret_parse_headers(w, rc) ==
  LET s == Parsed(w)
      n == stream[s].fields
      more == n < plan[s].request IN
  /\ st_map[w] # None
  /\ IF rc = "ok" THEN more ELSE n + 1 >= plan[s].request
  /\ st_map' = [st_map EXCEPT ![w] = None]
  /\ stream' = [stream EXCEPT ![s].fields = IF more THEN n + 1 ELSE n,
                              ![s].st = IF rc = "done" THEN "reply" ELSE @]
  /\ IF HasRoom(events)
     THEN /\ events' = Append(events, [conn |-> st_map[w], ret |-> rc, ip |-> AddrText(w, st_map[w]),
                                       field |-> IF more THEN <<s, n + 1>> ELSE None])
          /\ UNCHANGED broken
     ELSE broken' = broken \cup {s} /\ UNCHANGED events
  /\ UNCHANGED <<plan, table, pid_conn_map, resp_events, table_events, lostInserts>>

-----------------------------------------------------------------------------
(* Responses. The connection is not an argument of                          *)
(* ngx_http_v3_encode_field_lri: the probe takes the last one whose headers *)
(* the thread has parsed. A field section refers to the table as it was at  *)
(* its start (base).                                                        *)

StaticName(index) == <<"static", index>>
Base(s) == IF stream[s].replied = 0 THEN Len(table[s]) ELSE stream[s].base
NameMeant(s, ref) ==
  IF ref.dynamic THEN table[s][Base(s) - ref.index] ELSE StaticName(ref.index)

entry_encode_field_lri(w, s) ==
  LET k == stream[s].replied + 1
      c == pid_conn_map[w] IN
  /\ st_map[w] = None
  /\ stream[s].st = "reply" /\ stream[s].w = w
  /\ k <= Len(plan[s].reply)
  /\ \A i \in 1 .. Len(plan[s].reply) :
       plan[s].reply[i].dynamic => plan[s].reply[i].index < stream[s].inserted
  /\ stream' = [stream EXCEPT ![s].replied = k, ![s].base = Base(s)]
  /\ resp_events' =
       IF HasRoom(resp_events)
       THEN Append(resp_events,
              [conn |-> c, ip |-> AddrText(w, c), dynamic |-> plan[s].reply[k].dynamic,
               index |-> plan[s].reply[k].index, value |-> <<s, k>>, means |-> NameMeant(s, plan[s].reply[k])])
       ELSE resp_events
  /\ UNCHANGED <<plan, table, h3Maps, events, table_events, broken, lostInserts>>

-----------------------------------------------------------------------------
(* The dynamic table: ngx_http_v3_insert, ngx_http_v3_ref_insert and        *)
(* ngx_http_v3_duplicate. Indices count back from the newest entry.         *)

NameInserted(s, k) ==
  LET i == plan[s].table[k]
      t == table[s] IN
  CASE i.op = "insert" -> <<s, k>>
    [] i.op = "ref_insert" /\ ~i.dynamic -> StaticName(i.index)
    [] OTHER -> t[Len(t) - i.index]

\* entry_insert, entry_ref_insert and entry_duplicate.
entry_table(w, s) ==
  LET k == stream[s].inserted + 1
      c == stream[s].conn IN
  /\ st_map[w] = None
  /\ c # None /\ stream[s].w = w
  /\ k <= Len(plan[s].table)
  /\ stream' = [stream EXCEPT ![s].inserted = k]
  /\ table' = [table EXCEPT ![s] = Append(@, NameInserted(s, k))]
  /\ IF HasRoom(table_events)
     THEN /\ table_events' = Append(table_events,
               [conn |-> c, op |-> plan[s].table[k].op, dynamic |-> plan[s].table[k].dynamic,
                index |-> plan[s].table[k].index, name |-> <<s, k>>])
          /\ UNCHANGED lostInserts
     ELSE lostInserts' = lostInserts \cup {s} /\ UNCHANGED table_events
  /\ UNCHANGED <<plan, h3Maps, events, resp_events, broken>>

\* The stream ends: its response is complete, or the client has reset it or left.
CloseStream(w, s) ==
  /\ st_map[w] = None
  /\ stream[s].w = w /\ stream[s].conn # None
  /\ stream' = Ended(s)
  /\ broken' = IF stream[s].st = "headers" /\ stream[s].fields > 0 THEN broken \cup {s} ELSE broken
  /\ UNCHANGED <<plan, table, h3Maps, events, resp_events, table_events, lostInserts>>

=============================================================================
