--------------------------- MODULE CaptureProofs ---------------------------
(* Proofs about SslHook and about Capture, for any sessions, workers,       *)
(* descriptors, SSL addresses, plaintext and limits.                        *)
EXTENDS Capture, WellFoundedInduction, TLAPS

-----------------------------------------------------------------------------
(* The inductive invariant of the probes.                                   *)

SessionType == [st : {"new", "accepting", "accepted", "open", "closed"},
                w : Workers \cup {None}, fd : Fds \cup {None},
                ptr : Ptrs \cup {None}, recv : Nat, send : Nat]

CallType == [call : {"none", "accept", "recv", "send"}, s : Sessions \cup {None}]
Pieces(seq) == {SubSeq(seq, k[1], k[2]) : k \in Nat \X Nat}
Data == {<<>>} \cup UNION {Pieces(In[s]) \cup Pieces(Out[s]) : s \in Sessions}
EventType == [dir : {"recv", "send", "close"}, pid : Workers, ssl : Ptrs \cup {None},
              conn : Clients \cup {None}, len : Nat, data : Data, of : Sessions, read : Nat]

MapType ==
  /\ tidConn \in [Workers -> Clients \cup {None}]
  /\ fdConn \in [Workers -> [Fds -> Clients \cup {None}]]
  /\ sslConn \in [Workers -> [Ptrs -> Clients \cup {None}]]
  /\ bufs \in [Workers -> Ptrs \cup {None}]

StateType ==
  /\ sess \in [Sessions -> SessionType]
  /\ busy \in [Workers -> CallType]
  /\ MapType
  /\ ring \in Seq(EventType) /\ Len(ring) <= MaxRing
  /\ evictions \in 0 .. MaxEvictions

\* The call a worker is in, and what the maps keep for its thread.
CallOk(w) ==
  LET s == busy[w].s IN
  /\ busy[w].call = "accept" => s \in Clients /\ sess[s].st = "accepting"
  /\ busy[w].call \in {"recv", "send"} =>
       s \in Sessions /\ sess[s].st = "open" /\ sess[s].w = w /\ bufs[w] = sess[s].ptr
  /\ busy[w].call \notin {"recv", "send"} => bufs[w] = None
  /\ tidConn[w] # None => busy[w].call = "accept" /\ tidConn[w] = s

Calls ==
  /\ \A w \in Workers : CallOk(w)
  /\ \A v, w \in Workers : busy[v].call = "accept" /\ busy[v] = busy[w] => v = w

\* A descriptor and an SSL address of a worker belong to one session at a time.
Placed(s) ==
  /\ Live(s) => sess[s].w \in Workers /\ sess[s].fd \in Fds
  /\ sess[s].st = "open" => sess[s].ptr \in Ptrs

Clash(s, t) ==
  /\ Live(s) /\ Live(t) /\ sess[s].w = sess[t].w
  /\ \/ sess[s].fd = sess[t].fd
     \/ sess[s].st = "open" /\ sess[t].st = "open" /\ sess[s].ptr = sess[t].ptr

Exclusive ==
  /\ \A s \in Sessions : Placed(s)
  /\ \A s, t \in Sessions : Clash(s, t) => s = t

\* What a map has under a key is the session that has the key, or a dead one.
Dead(c) == sess[c].st = "closed"
FdOwner(w, fd) ==
  LET c == fdConn[w][fd] IN
  c # None => Dead(c) \/ (sess[c].st = "accepted" /\ sess[c].w = w /\ sess[c].fd = fd)

SslOwner(w, p) ==
  LET c == sslConn[w][p] IN
  c # None => Dead(c) \/ (sess[c].st = "open" /\ sess[c].w = w /\ sess[c].ptr = p)

EventOwner(e) == e.conn # None => e.conn = e.of \/ Dead(e.conn)
Owners ==
  /\ \A w \in Workers : \A fd \in Fds : FdOwner(w, fd)
  /\ \A w \in Workers : \A p \in Ptrs : SslOwner(w, p)
  /\ \A e \in SetOf(ring) : EventOwner(e)

\* As long as nothing was evicted the chain of maps is whole.
Linked(c) ==
  /\ sess[c].st = "accepted" => fdConn[sess[c].w][sess[c].fd] = c
  /\ sess[c].st = "open" => sslConn[sess[c].w][sess[c].ptr] = c

Attributed(e) == e.of \in Clients /\ e.dir # "close" => e.conn = e.of
Chain ==
  evictions = 0 =>
    /\ \A w \in Workers : busy[w].call = "accept" => tidConn[w] = busy[w].s
    /\ \A c \in Clients : Linked(c)
    /\ \A e \in SetOf(ring) : Attributed(e)

IInv == StateType /\ Calls /\ Exclusive /\ Owners /\ Chain

LEMMA ClientsAreSessions == /\ Clients \subseteq Sessions /\ Upstreams \subseteq Sessions
                            /\ None \notin Clients /\ None \notin Sessions /\ None \notin Ptrs
BY HookAssumption DEF Sessions

\* The records of a session that gets a place, and of one that ends.
LEMMA AcceptedRecord ==
  ASSUME NEW w \in Workers, NEW fd \in Fds
  PROVE  /\ Accepted(w, fd) \in SessionType
         /\ Accepted(w, fd).st = "accepted" /\ Accepted(w, fd).w = w /\ Accepted(w, fd).fd = fd
BY DEF SessionType, Accepted

LEMMA ClosedRecord ==
  ASSUME NEW s, sess[s] \in SessionType
  PROVE  Closed(s) \in SessionType /\ Closed(s).st = "closed"
BY DEF SessionType, Closed

LEMMA EventTyped ==
  ASSUME IInv, NEW e \in SetOf(ring)
  PROVE  e.of \in Sessions /\ e.conn \in Sessions \cup {None}
<1>1. e \in EventType
  BY DEF IInv, StateType, SetOf
<1> QED BY <1>1, ClientsAreSessions DEF EventType

LEMMA MapEntries ==
  ASSUME IInv, NEW w \in Workers
  PROVE  /\ tidConn[w] \in Sessions \cup {None} /\ tidConn[w] \in Clients \cup {None}
         /\ bufs[w] \in Ptrs \cup {None}
         /\ \A fd \in Fds : fdConn[w][fd] \in Clients \cup {None}
         /\ \A fd \in Fds : fdConn[w][fd] \in Sessions \cup {None} /\ FdOwner(w, fd)
         /\ \A p \in Ptrs : sslConn[w][p] \in Clients \cup {None}
         /\ \A p \in Ptrs : sslConn[w][p] \in Sessions \cup {None} /\ SslOwner(w, p)
BY ClientsAreSessions DEF IInv, StateType, MapType, Owners

LEMMA FdOwnerKept ==
  ASSUME IInv, NEW w \in Workers, NEW fd \in Fds, NEW s \in Sessions,
         fdConn'[w][fd] = fdConn[w][fd],
         \A t \in Sessions \ {s} : sess'[t] = sess[t],
         sess[s].st # "closed",
         fdConn[w][fd] = s =>
           \/ sess'[s].st = "closed"
           \/ sess'[s].st = sess[s].st /\ sess'[s].w = sess[s].w /\ sess'[s].fd = sess[s].fd
  PROVE  FdOwner(w, fd)'
<1>1. fdConn[w][fd] \in Sessions \cup {None} /\ FdOwner(w, fd)
  BY MapEntries
<1> QED BY <1>1 DEF FdOwner, Dead

LEMMA SslOwnerKept ==
  ASSUME IInv, NEW w \in Workers, NEW p \in Ptrs, NEW s \in Sessions,
         sslConn'[w][p] = sslConn[w][p],
         \A t \in Sessions \ {s} : sess'[t] = sess[t],
         sess[s].st # "closed",
         sslConn[w][p] = s =>
           \/ sess'[s].st = "closed"
           \/ sess'[s].st = sess[s].st /\ sess'[s].w = sess[s].w /\ sess'[s].ptr = sess[s].ptr
  PROVE  SslOwner(w, p)'
<1>1. sslConn[w][p] \in Sessions \cup {None} /\ SslOwner(w, p)
  BY MapEntries
<1> QED BY <1>1 DEF SslOwner, Dead

LEMMA EventOwnerKept ==
  ASSUME IInv, NEW e \in SetOf(ring), NEW s \in Sessions,
         \A t \in Sessions \ {s} : sess'[t] = sess[t],
         sess[s].st # "closed"
  PROVE  EventOwner(e)'
<1>1. e.conn \in Sessions \cup {None} /\ EventOwner(e)
  BY EventTyped DEF IInv, Owners
<1> QED BY <1>1 DEF EventOwner, Dead

LEMMA OtherCallKept ==
  ASSUME IInv, NEW v \in Workers, NEW s \in Sessions,
         \A t \in Sessions \ {s} : sess'[t] = sess[t],
         busy'[v] = busy[v], tidConn'[v] = tidConn[v], bufs'[v] = bufs[v],
         busy[v].call = "none" \/ busy[v].s # s
  PROVE  CallOk(v)'
<1>1. CallOk(v) /\ busy[v] \in CallType
  BY DEF IInv, Calls, StateType
<1>2. busy[v].call # "none" => busy[v].s \in Sessions
  BY <1>1, ClientsAreSessions DEF CallOk, CallType
<1> QED BY <1>1, <1>2 DEF CallOk

\* No two workers are in a call for one session.
LEMMA NotShared ==
  ASSUME IInv, NEW v \in Workers, NEW w \in Workers, v # w, NEW s \in Sessions,
         \/ busy[w].call = "accept" /\ busy[w].s = s
         \/ Live(s) /\ sess[s].w = w
         \/ sess[s].st = "new"
  PROVE  busy[v].call = "none" \/ busy[v].s # s
<1> SUFFICES ASSUME busy[v].call # "none", busy[v].s = s PROVE FALSE
  OBVIOUS
<1>1. CallOk(v) /\ CallOk(w) /\ busy \in [Workers -> CallType]
  BY DEF IInv, Calls, StateType
<1>2. CASE busy[w].call = "accept" /\ busy[w].s = s
  <2>1. busy[v].call = "accept"
    BY <1>1, <1>2 DEF CallOk, CallType
  <2>2. busy[v] = busy[w]
    BY <2>1, <1>1, <1>2 DEF CallType
  <2> QED BY <2>1, <2>2 DEF IInv, Calls
<1>3. CASE Live(s) /\ sess[s].w = w
  BY <1>1, <1>3 DEF CallOk, CallType, Live
<1>4. CASE sess[s].st = "new"
  BY <1>1, <1>4 DEF CallOk, CallType
<1> QED BY <1>2, <1>3, <1>4

\* A session that is given a free descriptor of a worker.
LEMMA ExclusiveOnAccept ==
  ASSUME IInv, NEW s \in Sessions, NEW w \in Workers, NEW fd \in FreeFds(w),
         sess'[s].st = "accepted", sess'[s].w = w, sess'[s].fd = fd,
         \A t \in Sessions \ {s} : sess'[t] = sess[t]
  PROVE  Exclusive'
<1>1. ASSUME NEW t \in Sessions PROVE Placed(t)'
  BY DEF IInv, Exclusive, Placed, Live, FreeFds
<1>2. ASSUME NEW t \in Sessions \ {s} PROVE ~Clash(s, t)' /\ ~Clash(t, s)'
  <2>1. ~(Live(t) /\ sess[t].w = w /\ sess[t].fd = fd)
    BY DEF FreeFds
  <2> QED BY <2>1 DEF Clash, Live
<1>3. ASSUME NEW t \in Sessions \ {s}, NEW u \in Sessions \ {s}, Clash(t, u)' PROVE t = u
  BY <1>3 DEF IInv, Exclusive, Clash, Live
<1>4. ASSUME NEW t \in Sessions, NEW u \in Sessions, Clash(t, u)' PROVE t = u
  BY <1>2, <1>3, <1>4
<1> QED BY <1>1, <1>4 DEF Exclusive

\* A session that ends.
LEMMA Ending ==
  ASSUME IInv, NEW s \in Sessions, sess' = [sess EXCEPT ![s] = Closed(s)], sess[s].st # "closed"
  PROVE  /\ sess' \in [Sessions -> SessionType] /\ sess'[s].st = "closed"
         /\ \A t \in Sessions \ {s} : sess'[t] = sess[t]
         /\ Exclusive'
         /\ \A w \in Workers : \A fd \in Fds : fdConn'[w][fd] = fdConn[w][fd] => FdOwner(w, fd)'
         /\ \A w \in Workers : \A p \in Ptrs : sslConn'[w][p] = sslConn[w][p] => SslOwner(w, p)'
         /\ \A e \in SetOf(ring) : EventOwner(e)'
<1>1. sess \in [Sessions -> SessionType]
  BY DEF IInv, StateType
<1>2. /\ sess' \in [Sessions -> SessionType] /\ sess'[s].st = "closed"
      /\ \A t \in Sessions \ {s} : sess'[t] = sess[t]
  BY <1>1, ClosedRecord
<1>3. Exclusive'
  <2>1. ASSUME NEW t \in Sessions PROVE Placed(t)'
    BY <1>2 DEF IInv, Exclusive, Placed, Live
  <2>2. ASSUME NEW t \in Sessions, NEW u \in Sessions, Clash(t, u)' PROVE t = u
    BY <1>2, <2>2 DEF IInv, Exclusive, Clash, Live
  <2> QED BY <2>1, <2>2 DEF Exclusive
<1>4. \A w \in Workers : \A fd \in Fds : fdConn'[w][fd] = fdConn[w][fd] => FdOwner(w, fd)'
  BY <1>2, FdOwnerKept
<1>5. \A w \in Workers : \A p \in Ptrs : sslConn'[w][p] = sslConn[w][p] => SslOwner(w, p)'
  BY <1>2, SslOwnerKept
<1>6. \A e \in SetOf(ring) : EventOwner(e)'
  BY <1>2, EventOwnerKept
<1> QED BY <1>2, <1>3, <1>4, <1>5, <1>6

LEMMA InitInvariant == Init => IInv
<1> SUFFICES ASSUME Init PROVE IInv
  OBVIOUS
<1> USE ClientsAreSessions
<1>1. /\ \A s \in Sessions : sess[s] = Free
      /\ \A w \in Workers : busy[w] = NotBusy /\ tidConn[w] = None /\ bufs[w] = None
      /\ \A w \in Workers : \A fd \in Fds : fdConn[w][fd] = None
      /\ \A w \in Workers : \A p \in Ptrs : sslConn[w][p] = None
  BY DEF Init
<1>2. ring = <<>> /\ evictions = 0 /\ SetOf(ring) = {}
  BY DEF Init, SetOf
<1>3. StateType
  <2>1. Free \in SessionType /\ NotBusy \in CallType
    BY DEF Free, NotBusy, SessionType, CallType
  <2>2. sess \in [Sessions -> SessionType] /\ busy \in [Workers -> CallType]
    BY <2>1 DEF Init
  <2>3. MapType
    BY DEF Init, MapType
  <2>4. ring \in Seq(EventType) /\ Len(ring) <= MaxRing /\ evictions \in 0 .. MaxEvictions
    BY <1>2, HookAssumption
  <2> QED BY <2>2, <2>3, <2>4 DEF StateType
<1>4. Calls
  BY <1>1 DEF Calls, CallOk, NotBusy
<1>5. Exclusive
  BY <1>1 DEF Exclusive, Placed, Clash, Live, Free
<1>6. Owners
  BY <1>1, <1>2 DEF Owners, FdOwner, SslOwner
<1>7. Chain
  BY <1>1, <1>2 DEF Chain, Linked, Free, NotBusy
<1> QED BY <1>3, <1>4, <1>5, <1>6, <1>7 DEF IInv

-----------------------------------------------------------------------------
(* accept.                                                                  *)

LEMMA AcceptEntryStep ==
  ASSUME IInv, NEW w \in Workers, NEW c \in Clients, inet_csk_accept_exit(w, c)
  PROVE  IInv'
<1> DEFINE r == [call |-> "accept", s |-> c]
<1>1. c \in Sessions /\ r \in CallType /\ r.call = "accept" /\ r.s = c /\ c # None
  BY ClientsAreSessions DEF CallType
<1> HIDE DEF r
<1>2. /\ busy[w] = NotBusy /\ sess[c].st = "new"
      /\ tidConn' = [tidConn EXCEPT ![w] = c]
      /\ busy' = [busy EXCEPT ![w] = r]
      /\ fdConn' = fdConn /\ sslConn' = sslConn /\ bufs' = bufs
      /\ ring' = ring /\ evictions' = evictions
  BY DEF inet_csk_accept_exit, r
<1>3. sess' = [sess EXCEPT ![c].st = "accepting"]
  BY DEF inet_csk_accept_exit
<1>4. sess \in [Sessions -> SessionType] /\ busy \in [Workers -> CallType] /\ MapType
  BY DEF IInv, StateType
<1>5. sess' \in [Sessions -> SessionType]
  BY <1>1, <1>3, <1>4 DEF SessionType
<1>6. /\ sess'[c].st = "accepting"
      /\ \A t \in Sessions \ {c} : sess'[t] = sess[t]
  BY <1>1, <1>3, <1>4 DEF SessionType
<1>7. /\ busy' \in [Workers -> CallType] /\ busy'[w] = r /\ tidConn'[w] = c
      /\ \A v \in Workers \ {w} : busy'[v] = busy[v] /\ tidConn'[v] = tidConn[v]
  BY <1>1, <1>2, <1>4 DEF MapType
<1>8. StateType'
  BY <1>2, <1>4, <1>5, <1>7 DEF IInv, StateType, MapType
<1>9. Calls'
  <2>1. CallOk(w)'
    BY <1>1, <1>2, <1>6, <1>7 DEF IInv, Calls, CallOk, NotBusy
  <2>2. ASSUME NEW v \in Workers \ {w} PROVE CallOk(v)'
    <3>1. busy[v].call = "none" \/ busy[v].s # c
      BY <1>1, <1>2, NotShared
    <3> QED BY <3>1, <1>1, <1>2, <1>6, <1>7, OtherCallKept
  <2>3. ASSUME NEW v \in Workers, NEW x \in Workers, busy'[v].call = "accept", busy'[v] = busy'[x]
        PROVE  v = x
    BY <2>3, <1>1, <1>2, <1>7 DEF IInv, Calls, CallOk
  <2> QED BY <2>1, <2>2, <2>3 DEF Calls
<1>10. Exclusive'
  BY <1>1, <1>2, <1>6 DEF IInv, Exclusive, Placed, Clash, Live
<1>11. Owners'
  <2>1. ASSUME NEW v \in Workers, NEW fd \in Fds PROVE FdOwner(v, fd)'
    <3>1. fdConn[v][fd] # c
      BY <1>1, <1>2, MapEntries DEF FdOwner, Dead
    <3> QED BY <3>1, <1>1, <1>2, <1>6, FdOwnerKept
  <2>2. ASSUME NEW v \in Workers, NEW p \in Ptrs PROVE SslOwner(v, p)'
    <3>1. sslConn[v][p] # c
      BY <1>1, <1>2, MapEntries DEF SslOwner, Dead
    <3> QED BY <3>1, <1>1, <1>2, <1>6, SslOwnerKept
  <2>3. ASSUME NEW e \in SetOf(ring) PROVE EventOwner(e)'
    BY <1>1, <1>2, <1>6, EventOwnerKept
  <2> QED BY <2>1, <2>2, <2>3, <1>2 DEF Owners, SetOf
<1>12. Chain'
  BY <1>1, <1>2, <1>6, <1>7, ClientsAreSessions DEF IInv, Chain, Linked, Attributed, SetOf
<1> QED BY <1>8, <1>9, <1>10, <1>11, <1>12 DEF IInv

LEMMA AcceptExitStep ==
  ASSUME IInv, NEW w \in Workers, NEW fd \in Fds, accept_exit(w, fd)
  PROVE  IInv'
<1> PICK c \in Clients : c = busy[w].s
  BY DEF accept_exit, IInv, Calls, CallOk
<1>1. /\ c \in Clients /\ c \in Sessions /\ c # None /\ sess[c].st = "accepting"
      /\ bufs[w] = None /\ NotBusy \in CallType
  BY ClientsAreSessions DEF accept_exit, IInv, Calls, CallOk, CallType, NotBusy
<1>2. /\ busy[w].call = "accept" /\ busy[w].s = c /\ fd \in FreeFds(w)
      /\ tidConn' = [tidConn EXCEPT ![w] = None]
      /\ fdConn' = [fdConn EXCEPT ![w][fd] = FdInfo(w, fd)]
      /\ busy' = [busy EXCEPT ![w] = NotBusy]
      /\ sslConn' = sslConn /\ bufs' = bufs /\ ring' = ring /\ evictions' = evictions
  BY DEF accept_exit
<1>3. sess' = [sess EXCEPT ![c] = Accepted(w, fd)]
  BY DEF accept_exit
<1>4. sess \in [Sessions -> SessionType] /\ busy \in [Workers -> CallType] /\ MapType
  BY DEF IInv, StateType
<1>6. /\ sess'[c].st = "accepted" /\ sess'[c].w = w /\ sess'[c].fd = fd
      /\ sess' \in [Sessions -> SessionType]
      /\ \A t \in Sessions \ {c} : sess'[t] = sess[t]
  BY <1>1, <1>3, <1>4, AcceptedRecord
<1>7. /\ busy' \in [Workers -> CallType] /\ busy'[w] = NotBusy /\ tidConn'[w] = None
      /\ tidConn' \in [Workers -> Clients \cup {None}]
      /\ \A v \in Workers \ {w} : busy'[v] = busy[v] /\ tidConn'[v] = tidConn[v]
  BY <1>1, <1>2, <1>4 DEF MapType
<1>8. /\ FdInfo(w, fd) \in Clients \cup {None}
      /\ tidConn[w] = None \/ tidConn[w] = c
      /\ FdInfo(w, fd) = tidConn[w] \/ (tidConn[w] = None /\ FdInfo(w, fd) = fdConn[w][fd])
  BY MapEntries DEF FdInfo, IInv, Calls, CallOk
<1>9. /\ fdConn' \in [Workers -> [Fds -> Clients \cup {None}]]
      /\ fdConn'[w][fd] = FdInfo(w, fd)
      /\ \A v \in Workers : \A x \in Fds : v # w \/ x # fd => fdConn'[v][x] = fdConn[v][x]
  BY <1>2, <1>4, <1>8 DEF MapType
<1>10. StateType'
  BY <1>2, <1>4, <1>6, <1>7, <1>9 DEF IInv, StateType, MapType
<1>11. Calls'
  <2>1. CallOk(w)'
    BY <1>1, <1>2, <1>7 DEF CallOk, NotBusy
  <2>2. ASSUME NEW v \in Workers \ {w} PROVE CallOk(v)'
    <3>1. busy[v].call = "none" \/ busy[v].s # c
      BY <1>1, <1>2, NotShared
    <3> QED BY <3>1, <1>1, <1>2, <1>6, <1>7, OtherCallKept
  <2>3. ASSUME NEW v \in Workers, NEW x \in Workers, busy'[v].call = "accept", busy'[v] = busy'[x]
        PROVE  v = x
    BY <2>3, <1>7 DEF IInv, Calls, NotBusy
  <2> QED BY <2>1, <2>2, <2>3 DEF Calls
<1>12. Exclusive'
  BY <1>1, <1>2, <1>6, ExclusiveOnAccept
<1>13. Owners'
  <2>1. ASSUME NEW v \in Workers, NEW x \in Fds PROVE FdOwner(v, x)'
    <3>1. fdConn[v][x] # c
      BY <1>1, MapEntries DEF FdOwner, Dead
    <3>2. CASE v = w /\ x = fd
      <4>1. CASE tidConn[w] # None
        BY <4>1, <3>2, <1>6, <1>8, <1>9 DEF FdOwner
      <4>2. CASE tidConn[w] = None
        <5>1. fdConn'[w][fd] = fdConn[w][fd] /\ fdConn[w][fd] # c
          BY <4>2, <3>1, <3>2, <1>9 DEF FdInfo
        <5>2. FdOwner(w, fd)'
          BY <5>1, <1>1, <1>6, FdOwnerKept
        <5> QED BY <5>2, <3>2
      <4> QED BY <4>1, <4>2
    <3>3. CASE v # w \/ x # fd
      BY <3>1, <3>3, <1>1, <1>6, <1>9, FdOwnerKept
    <3> QED BY <3>2, <3>3
  <2>2. ASSUME NEW v \in Workers, NEW p \in Ptrs PROVE SslOwner(v, p)'
    <3>1. sslConn[v][p] # c
      BY <1>1, <1>2, MapEntries DEF SslOwner, Dead
    <3> QED BY <3>1, <1>1, <1>2, <1>6, SslOwnerKept
  <2>3. ASSUME NEW e \in SetOf(ring) PROVE EventOwner(e)'
    BY <1>1, <1>2, <1>6, EventOwnerKept
  <2> QED BY <2>1, <2>2, <2>3, <1>2 DEF Owners, SetOf
<1>14. Chain'
  <2> SUFFICES ASSUME evictions = 0
               PROVE  /\ \A v \in Workers : busy'[v].call = "accept" => tidConn'[v] = busy'[v].s
                      /\ \A k \in Clients : Linked(k)'
                      /\ \A e \in SetOf(ring) : Attributed(e)
    BY <1>2 DEF Chain, SetOf, Attributed
  <2>1. Chain /\ tidConn[w] = c
    BY <1>2 DEF IInv, Chain
  <2>2. Linked(c)'
    <3>1. fdConn'[w][fd] = c
      BY <2>1, <1>1, <1>8, <1>9
    <3> QED BY <3>1, <1>6 DEF Linked
  <2>3. ASSUME NEW k \in Clients \ {c} PROVE Linked(k)'
    <3>1. Linked(k) /\ k \in Sessions /\ sess'[k] = sess[k] /\ Placed(k)
      BY <2>1, <1>6, ClientsAreSessions DEF Chain, IInv, Exclusive
    <3>2. sess[k].st = "accepted" => sess[k].w # w \/ sess[k].fd # fd
      BY <3>1, <1>2 DEF FreeFds, Live
    <3> QED BY <3>1, <3>2, <1>2, <1>9 DEF Linked, Placed, Live
  <2>4. \A v \in Workers : busy'[v].call = "accept" => tidConn'[v] = busy'[v].s
    BY <2>1, <1>7 DEF Chain, NotBusy
  <2> QED BY <2>1, <2>2, <2>3, <2>4 DEF Chain, Attributed
<1> QED BY <1>10, <1>11, <1>12, <1>13, <1>14 DEF IInv

LEMMA AcceptErrorStep ==
  ASSUME IInv, NEW w \in Workers, accept_exit_error(w)
  PROVE  IInv'
<1> PICK c \in Clients : c = busy[w].s
  BY DEF accept_exit_error, IInv, Calls, CallOk
<1>1. /\ c \in Sessions /\ sess[c].st = "accepting"
      /\ bufs[w] = None /\ NotBusy \in CallType
  BY ClientsAreSessions DEF accept_exit_error, IInv, Calls, CallOk, CallType, NotBusy
<1>2. /\ busy[w].call = "accept" /\ busy[w].s = c
      /\ tidConn' = [tidConn EXCEPT ![w] = None]
      /\ busy' = [busy EXCEPT ![w] = NotBusy]
      /\ sess' = [sess EXCEPT ![c] = Closed(c)]
      /\ fdConn' = fdConn /\ sslConn' = sslConn /\ bufs' = bufs
      /\ ring' = ring /\ evictions' = evictions
  BY DEF accept_exit_error
<1>3. sess \in [Sessions -> SessionType] /\ busy \in [Workers -> CallType] /\ MapType
  BY DEF IInv, StateType
<1>4. /\ sess' \in [Sessions -> SessionType] /\ sess'[c].st = "closed"
      /\ \A t \in Sessions \ {c} : sess'[t] = sess[t]
  BY <1>1, <1>2, Ending
<1>5. /\ busy' \in [Workers -> CallType] /\ busy'[w] = NotBusy /\ tidConn'[w] = None
      /\ tidConn' \in [Workers -> Clients \cup {None}]
      /\ \A v \in Workers \ {w} : busy'[v] = busy[v] /\ tidConn'[v] = tidConn[v]
  BY <1>1, <1>2, <1>3 DEF MapType
<1>6. StateType'
  BY <1>2, <1>3, <1>4, <1>5 DEF IInv, StateType, MapType
<1>7. Calls'
  <2>1. CallOk(w)'
    BY <1>1, <1>2, <1>5 DEF CallOk, NotBusy
  <2>2. ASSUME NEW v \in Workers \ {w} PROVE CallOk(v)'
    <3>1. busy[v].call = "none" \/ busy[v].s # c
      BY <1>1, <1>2, NotShared
    <3> QED BY <3>1, <1>1, <1>2, <1>4, <1>5, OtherCallKept
  <2>3. ASSUME NEW v \in Workers, NEW x \in Workers, busy'[v].call = "accept", busy'[v] = busy'[x]
        PROVE  v = x
    BY <2>3, <1>5 DEF IInv, Calls, NotBusy
  <2> QED BY <2>1, <2>2, <2>3 DEF Calls
<1>8. Exclusive'
  BY <1>1, <1>2, Ending
<1>9. Owners'
  BY <1>1, <1>2, Ending DEF Owners, SetOf
<1>10. Chain'
  BY <1>1, <1>2, <1>4, <1>5, ClientsAreSessions DEF IInv, Chain, Linked, Attributed, SetOf, NotBusy
<1> QED BY <1>6, <1>7, <1>8, <1>9, <1>10 DEF IInv

-----------------------------------------------------------------------------
(* Outbound and plain sockets.                                              *)

LEMMA ConnectStep ==
  ASSUME IInv, NEW w \in Workers, NEW u \in Upstreams, NEW fd \in Fds, Connect(w, u, fd)
  PROVE  IInv'
<1>1. u \in Sessions /\ u \notin Clients /\ sess[u].st = "new"
  BY HookAssumption, ClientsAreSessions DEF Connect
<1>2. /\ busy[w] = NotBusy /\ fd \in FreeFds(w)
      /\ sess' = [sess EXCEPT ![u] = Accepted(w, fd)]
      /\ busy' = busy /\ tidConn' = tidConn /\ fdConn' = fdConn /\ sslConn' = sslConn
      /\ bufs' = bufs /\ ring' = ring /\ evictions' = evictions
  BY DEF Connect, maps
<1>3. sess \in [Sessions -> SessionType]
  BY DEF IInv, StateType
<1>4. /\ sess' \in [Sessions -> SessionType]
      /\ sess'[u].st = "accepted" /\ sess'[u].w = w /\ sess'[u].fd = fd
      /\ \A t \in Sessions \ {u} : sess'[t] = sess[t]
  BY <1>1, <1>2, <1>3, AcceptedRecord
<1>5. StateType'
  BY <1>2, <1>4 DEF IInv, StateType, MapType
<1>6. Calls'
  <2>1. ASSUME NEW v \in Workers PROVE CallOk(v)'
    <3>1. busy[v].call = "none" \/ busy[v].s # u
      BY <1>1, <1>2, NotShared DEF NotBusy
    <3> QED BY <3>1, <1>1, <1>2, <1>4, OtherCallKept
  <2> QED BY <2>1, <1>2 DEF IInv, Calls
<1>7. Exclusive'
  BY <1>1, <1>2, <1>4, ExclusiveOnAccept
<1>8. Owners'
  <2>1. ASSUME NEW v \in Workers, NEW x \in Fds PROVE FdOwner(v, x)'
    <3>1. fdConn[v][x] # u
      BY <1>1, ClientsAreSessions, MapEntries
    <3> QED BY <3>1, <1>1, <1>2, <1>4, FdOwnerKept
  <2>2. ASSUME NEW v \in Workers, NEW p \in Ptrs PROVE SslOwner(v, p)'
    <3>1. sslConn[v][p] # u
      BY <1>1, ClientsAreSessions, MapEntries
    <3> QED BY <3>1, <1>1, <1>2, <1>4, SslOwnerKept
  <2>3. ASSUME NEW e \in SetOf(ring) PROVE EventOwner(e)'
    BY <1>1, <1>4, EventOwnerKept
  <2> QED BY <2>1, <2>2, <2>3, <1>2 DEF Owners, SetOf
<1>9. Chain'
  BY <1>1, <1>2, <1>4, ClientsAreSessions DEF IInv, Chain, Linked, Attributed, SetOf
<1> QED BY <1>5, <1>6, <1>7, <1>8, <1>9 DEF IInv

LEMMA CloseSocketStep ==
  ASSUME IInv, NEW w \in Workers, NEW s \in Sessions, CloseSocket(w, s)
  PROVE  IInv'
<1>1. /\ busy[w] = NotBusy /\ sess[s].st = "accepted" /\ sess[s].w = w
      /\ sess' = [sess EXCEPT ![s] = Closed(s)]
      /\ busy' = busy /\ tidConn' = tidConn /\ fdConn' = fdConn /\ sslConn' = sslConn
      /\ bufs' = bufs /\ ring' = ring /\ evictions' = evictions
  BY DEF CloseSocket, maps
<1>2. /\ sess' \in [Sessions -> SessionType] /\ sess'[s].st = "closed"
      /\ \A t \in Sessions \ {s} : sess'[t] = sess[t]
  BY <1>1, Ending
<1>3. StateType'
  BY <1>1, <1>2 DEF IInv, StateType, MapType
<1>4. Calls'
  <2>1. ASSUME NEW v \in Workers PROVE CallOk(v)'
    <3>1. busy[v].call = "none" \/ busy[v].s # s
      BY <1>1, NotShared DEF NotBusy, Live
    <3> QED BY <3>1, <1>1, <1>2, OtherCallKept
  <2> QED BY <2>1, <1>1 DEF IInv, Calls
<1>5. Exclusive'
  BY <1>1, Ending
<1>6. Owners'
  BY <1>1, Ending DEF Owners, SetOf
<1>7. Chain'
  BY <1>1, <1>2, ClientsAreSessions DEF IInv, Chain, Linked, Attributed, SetOf
<1> QED BY <1>3, <1>4, <1>5, <1>6, <1>7 DEF IInv

LEMMA SetFdStep ==
  ASSUME IInv, NEW w \in Workers, NEW s \in Sessions, NEW p \in Ptrs, ssl_set_fd(w, s, p)
  PROVE  IInv'
<1> PICK fd \in Fds : fd = sess[s].fd
  BY DEF ssl_set_fd, IInv, Exclusive, Placed, Live
<1>1. /\ busy[w] = NotBusy /\ sess[s].st = "accepted" /\ sess[s].w = w /\ sess[s].fd = fd
      /\ p \in FreePtrs(w)
      /\ busy' = busy /\ tidConn' = tidConn /\ bufs' = bufs /\ ring' = ring
      /\ evictions' = evictions
  BY DEF ssl_set_fd
<1>2. \/ fdConn[w][fd] = None /\ fdConn' = fdConn /\ sslConn' = sslConn
      \/ /\ fdConn[w][fd] # None
         /\ sslConn' = [sslConn EXCEPT ![w][p] = fdConn[w][fd]]
         /\ fdConn' = [fdConn EXCEPT ![w][fd] = None]
  BY DEF ssl_set_fd
<1>3. sess' = [sess EXCEPT ![s] = Opened(s, p)]
  BY DEF ssl_set_fd
<1>4. sess \in [Sessions -> SessionType] /\ MapType
  BY DEF IInv, StateType
<1>5. /\ Opened(s, p) \in SessionType /\ Opened(s, p).st = "open" /\ Opened(s, p).ptr = p
      /\ Opened(s, p).w = w /\ Opened(s, p).fd = fd
  BY <1>1, <1>4 DEF SessionType, Opened
<1>6. sess' \in [Sessions -> SessionType] /\ sess'[s].st = "open" /\ sess'[s].ptr = p
  BY <1>3, <1>4, <1>5
<1>7. sess'[s].w = w /\ sess'[s].fd = fd
  BY <1>3, <1>4, <1>5
<1>8. \A t \in Sessions \ {s} : sess'[t] = sess[t]
  BY <1>3, <1>4
<1>9. /\ fdConn' \in [Workers -> [Fds -> Clients \cup {None}]]
      /\ sslConn' \in [Workers -> [Ptrs -> Clients \cup {None}]]
  <2>1. fdConn' \in [Workers -> [Fds -> Clients \cup {None}]]
    <3>1. CASE fdConn' = fdConn
      BY <3>1, <1>4 DEF MapType
    <3>2. CASE fdConn' = [fdConn EXCEPT ![w][fd] = None]
      BY <3>2, <1>4 DEF MapType
    <3> QED BY <3>1, <3>2, <1>2
  <2>2. fdConn[w][fd] \in Clients \cup {None}
    BY MapEntries
  <2>3. sslConn' \in [Workers -> [Ptrs -> Clients \cup {None}]]
    <3>1. CASE sslConn' = sslConn
      BY <3>1, <1>4 DEF MapType
    <3>2. CASE sslConn' = [sslConn EXCEPT ![w][p] = fdConn[w][fd]]
      BY <3>2, <2>2, <1>4 DEF MapType
    <3> QED BY <3>1, <3>2, <1>2
  <2> QED BY <2>1, <2>3
<1>10. /\ fdConn'[w][fd] = None
       /\ \A v \in Workers : \A x \in Fds : v # w \/ x # fd => fdConn'[v][x] = fdConn[v][x]
  BY <1>2, <1>4 DEF MapType
<1>11. /\ sslConn'[w][p] = IF fdConn[w][fd] # None THEN fdConn[w][fd] ELSE sslConn[w][p]
       /\ \A v \in Workers : \A x \in Ptrs : v # w \/ x # p => sslConn'[v][x] = sslConn[v][x]
  BY <1>2, <1>4 DEF MapType
<1>12. StateType'
  BY <1>1, <1>4, <1>6, <1>9 DEF IInv, StateType, MapType
<1>13. Calls'
  <2>1. ASSUME NEW v \in Workers PROVE CallOk(v)'
    <3>1. busy[v].call = "none" \/ busy[v].s # s
      BY <1>1, NotShared DEF NotBusy, Live
    <3> QED BY <3>1, <1>1, <1>8, OtherCallKept
  <2> QED BY <2>1, <1>1 DEF IInv, Calls
<1>14. ASSUME NEW t \in Sessions, sess[t].st \in {"accepted", "open"},
              sess[t].w = w, sess[t].fd = fd
       PROVE  t = s
  BY <1>1, <1>14 DEF IInv, Exclusive, Clash, Live
<1>15. ASSUME NEW t \in Sessions, sess[t].st = "open", sess[t].w = w
       PROVE  sess[t].ptr # p
  BY <1>1, <1>15 DEF FreePtrs, Live
<1>16. Exclusive'
  <2>1. ASSUME NEW t \in Sessions PROVE Placed(t)'
    BY <1>6, <1>7, <1>8 DEF IInv, Exclusive, Placed, Live
  <2>2. ASSUME NEW t \in Sessions \ {s} PROVE ~Clash(s, t)' /\ ~Clash(t, s)'
    BY <1>6, <1>7, <1>8, <1>14, <1>15 DEF Clash, Live
  <2>3. ASSUME NEW t \in Sessions \ {s}, NEW u \in Sessions \ {s}, Clash(t, u)' PROVE t = u
    BY <2>3, <1>8 DEF IInv, Exclusive, Clash, Live
  <2>4. ASSUME NEW t \in Sessions, NEW u \in Sessions, Clash(t, u)' PROVE t = u
    BY <2>2, <2>3, <2>4
  <2> QED BY <2>1, <2>4 DEF Exclusive
<1>17. Owners'
  <2>1. ASSUME NEW v \in Workers, NEW x \in Fds PROVE FdOwner(v, x)'
    <3>1. CASE v = w /\ x = fd
      BY <3>1, <1>10 DEF FdOwner
    <3>2. CASE v # w \/ x # fd
      <4>1. fdConn[v][x] # s
        BY <3>2, <1>1, MapEntries, ClientsAreSessions DEF FdOwner, Dead
      <4> QED BY <4>1, <3>2, <1>1, <1>8, <1>10, FdOwnerKept
    <3> QED BY <3>1, <3>2
  <2>2. ASSUME NEW v \in Workers, NEW x \in Ptrs PROVE SslOwner(v, x)'
    <3>1. sslConn[v][x] # s
      BY <1>1, MapEntries, ClientsAreSessions DEF SslOwner, Dead
    <3>2. CASE sslConn'[v][x] = sslConn[v][x]
      BY <3>1, <3>2, <1>1, <1>8, SslOwnerKept
    <3>3. CASE sslConn'[v][x] # sslConn[v][x]
      <4>1. v = w /\ x = p /\ fdConn[w][fd] # None /\ sslConn'[w][p] = fdConn[w][fd]
        BY <3>3, <1>11
      <4>2. FdOwner(w, fd) /\ fdConn[w][fd] \in Sessions
        BY <4>1, MapEntries
      <4>3. CASE fdConn[w][fd] = s
        BY <4>1, <4>3, <1>6, <1>7 DEF SslOwner
      <4>4. CASE fdConn[w][fd] # s
        BY <4>1, <4>2, <4>4, <1>8, <1>14 DEF SslOwner, FdOwner, Dead
      <4> QED BY <4>3, <4>4
    <3> QED BY <3>2, <3>3
  <2>3. ASSUME NEW e \in SetOf(ring) PROVE EventOwner(e)'
    BY <1>1, <1>8, EventOwnerKept
  <2> QED BY <2>1, <2>2, <2>3, <1>1 DEF Owners, SetOf
<1>18. Chain'
  <2> SUFFICES ASSUME evictions = 0
               PROVE  \A c \in Clients : Linked(c)'
    BY <1>1 DEF IInv, Chain, SetOf, Attributed
  <2>1. \A c \in Clients : Linked(c)
    BY DEF IInv, Chain
  <2>3. ASSUME NEW c \in Clients, c # s PROVE Linked(c)'
    <3>1. Linked(c) /\ c \in Sessions /\ sess'[c] = sess[c] /\ Placed(c)
      BY <2>1, <2>3, <1>8, ClientsAreSessions DEF IInv, Exclusive
    <3>2. sess[c].st = "accepted" => fdConn'[sess[c].w][sess[c].fd] = fdConn[sess[c].w][sess[c].fd]
      BY <3>1, <2>3, <1>10, <1>14 DEF Placed, Live
    <3>3. sess[c].st = "open" => sslConn'[sess[c].w][sess[c].ptr] = sslConn[sess[c].w][sess[c].ptr]
      BY <3>1, <1>11, <1>15 DEF Placed, Live
    <3> QED BY <3>1, <3>2, <3>3 DEF Linked
  <2>4. ASSUME NEW c \in Clients PROVE Linked(c)'
    <3>1. CASE c = s
      <4>1. fdConn[w][fd] = s /\ s # None
        BY <2>1, <3>1, <1>1, ClientsAreSessions DEF Linked
      <4> QED BY <4>1, <3>1, <1>6, <1>7, <1>11 DEF Linked
    <3> QED BY <3>1, <2>3
  <2> QED BY <2>4
<1> QED BY <1>12, <1>13, <1>16, <1>17, <1>18 DEF IInv

-----------------------------------------------------------------------------
(* SSL_read and SSL_write.                                                  *)

LEMMA EntryStep ==
  ASSUME IInv, NEW w \in Workers, NEW s \in Sessions, NEW dir \in {"recv", "send"},
         ssl_entry(w, s, dir)
  PROVE  IInv'
<1> DEFINE r == [call |-> dir, s |-> s]
<1>1. r \in CallType /\ r.call = dir /\ r.s = s
  BY DEF CallType
<1> HIDE DEF r
<1>2. /\ busy[w] = NotBusy /\ sess[s].st = "open" /\ sess[s].w = w
      /\ bufs' = [bufs EXCEPT ![w] = sess[s].ptr]
      /\ busy' = [busy EXCEPT ![w] = r]
      /\ sess' = sess /\ tidConn' = tidConn /\ fdConn' = fdConn /\ sslConn' = sslConn
      /\ ring' = ring /\ evictions' = evictions
  BY DEF ssl_entry, r
<1>3. busy \in [Workers -> CallType] /\ MapType /\ sess[s].ptr \in Ptrs
  BY <1>2 DEF IInv, StateType, Exclusive, Placed
<1>4. /\ busy' \in [Workers -> CallType] /\ busy'[w] = r
      /\ bufs' \in [Workers -> Ptrs \cup {None}] /\ bufs'[w] = sess[s].ptr
      /\ \A v \in Workers \ {w} : busy'[v] = busy[v] /\ bufs'[v] = bufs[v]
  BY <1>1, <1>2, <1>3 DEF MapType
<1>5. StateType'
  BY <1>2, <1>3, <1>4 DEF IInv, StateType, MapType
<1>6. Calls'
  <2>1. CallOk(w)'
    BY <1>1, <1>2, <1>4 DEF IInv, Calls, CallOk, NotBusy
  <2>2. ASSUME NEW v \in Workers \ {w} PROVE CallOk(v)'
    BY <1>2, <1>4 DEF IInv, Calls, CallOk
  <2>3. ASSUME NEW v \in Workers, NEW x \in Workers, busy'[v].call = "accept", busy'[v] = busy'[x]
        PROVE  v = x
    BY <2>3, <1>1, <1>4 DEF IInv, Calls
  <2> QED BY <2>1, <2>2, <2>3 DEF Calls
<1>7. Exclusive'
  BY <1>2 DEF IInv, Exclusive, Placed, Clash, Live
<1>8. Owners'
  BY <1>2 DEF IInv, Owners, FdOwner, SslOwner, EventOwner, Dead, SetOf
<1>9. Chain'
  BY <1>1, <1>2, <1>4 DEF IInv, Chain, Linked, Attributed, SetOf
<1> QED BY <1>5, <1>6, <1>7, <1>8, <1>9 DEF IInv

LEMMA ExitNothingStep ==
  ASSUME IInv, NEW w \in Workers, ssl_exit_nothing(w)
  PROVE  IInv'
<1>1. NotBusy \in CallType /\ NotBusy.call = "none"
  BY DEF CallType, NotBusy
<1>2. /\ busy[w].call \in {"recv", "send"}
      /\ bufs' = [bufs EXCEPT ![w] = None]
      /\ busy' = [busy EXCEPT ![w] = NotBusy]
      /\ sess' = sess /\ tidConn' = tidConn /\ fdConn' = fdConn /\ sslConn' = sslConn
      /\ ring' = ring /\ evictions' = evictions
  BY DEF ssl_exit_nothing
<1>3. busy \in [Workers -> CallType] /\ MapType
  BY DEF IInv, StateType
<1>4. /\ busy' \in [Workers -> CallType] /\ busy'[w] = NotBusy
      /\ bufs' \in [Workers -> Ptrs \cup {None}] /\ bufs'[w] = None
      /\ \A v \in Workers \ {w} : busy'[v] = busy[v] /\ bufs'[v] = bufs[v]
  BY <1>1, <1>2, <1>3 DEF MapType
<1>5. StateType'
  BY <1>2, <1>3, <1>4 DEF IInv, StateType, MapType
<1>6. Calls'
  <2>1. CallOk(w)'
    BY <1>1, <1>2, <1>4 DEF IInv, Calls, CallOk
  <2>2. ASSUME NEW v \in Workers \ {w} PROVE CallOk(v)'
    BY <1>2, <1>4 DEF IInv, Calls, CallOk
  <2>3. ASSUME NEW v \in Workers, NEW x \in Workers, busy'[v].call = "accept", busy'[v] = busy'[x]
        PROVE  v = x
    BY <2>3, <1>1, <1>4 DEF IInv, Calls
  <2> QED BY <2>1, <2>2, <2>3 DEF Calls
<1>7. Exclusive'
  BY <1>2 DEF IInv, Exclusive, Placed, Clash, Live
<1>8. Owners'
  BY <1>2 DEF IInv, Owners, FdOwner, SslOwner, EventOwner, Dead, SetOf
<1>9. Chain'
  BY <1>1, <1>2, <1>4 DEF IInv, Chain, Linked, Attributed, SetOf
<1> QED BY <1>5, <1>6, <1>7, <1>8, <1>9 DEF IInv

\* An event that a probe submits.
LEMMA SubmitStep ==
  ASSUME IInv, NEW e \in EventType, Submit(e), HasRoom
  PROVE  /\ ring' \in Seq(EventType) /\ Len(ring') <= MaxRing
         /\ \A x \in SetOf(ring') : x \in SetOf(ring) \/ x = e
<1>1. ring \in Seq(EventType) /\ Len(ring) <= MaxRing /\ MaxRing \in Nat
  BY HookAssumption DEF IInv, StateType
<1>2. ring' = Append(ring, e) /\ Len(ring) < MaxRing
  BY DEF Submit, HasRoom
<1>3. /\ ring' \in Seq(EventType) /\ Len(ring') = Len(ring) + 1 /\ Len(ring) \in Nat
      /\ \A i \in 1 .. Len(ring') : ring'[i] = IF i <= Len(ring) THEN ring[i] ELSE e
  BY <1>1, <1>2
<1>4. ASSUME NEW x \in SetOf(ring') PROVE x \in SetOf(ring) \/ x = e
  <2>1. PICK i \in 1 .. Len(ring') : x = ring'[i]
    BY DEF SetOf
  <2> QED BY <2>1, <1>3 DEF SetOf
<1> QED BY <1>1, <1>2, <1>3, <1>4

LEMMA PieceOfPlain ==
  ASSUME NEW dir \in {"recv", "send"}, NEW s \in Sessions, NEW i \in Nat, NEW j \in Nat
  PROVE  SubSeq(Plain(dir)[s], i, j) \in Data
<1>1. ASSUME NEW seq PROVE SubSeq(seq, i, j) \in Pieces(seq)
  <2>1. <<i, j>> \in Nat \X Nat /\ <<i, j>>[1] = i /\ <<i, j>>[2] = j
    OBVIOUS
  <2> QED BY <2>1 DEF Pieces
<1>2. Plain(dir)[s] = In[s] \/ Plain(dir)[s] = Out[s]
  BY DEF Plain
<1>3. Pieces(In[s]) \subseteq Data /\ Pieces(Out[s]) \subseteq Data
  BY DEF Data
<1> QED BY <1>1, <1>2, <1>3

LEMMA ExitStep ==
  ASSUME IInv, NEW w \in Workers, NEW n \in 1 .. MaxCall, ssl_exit(w, n)
  PROVE  IInv'
<1> PICK s \in Sessions : s = busy[w].s
  BY ClientsAreSessions DEF ssl_exit, IInv, Calls, CallOk
<1> PICK dir \in {"recv", "send"} : dir = busy[w].call
  BY DEF ssl_exit
<1> PICK p \in Ptrs : p = bufs[w]
  BY DEF IInv, Calls, CallOk, Exclusive, Placed
<1> PICK at \in Nat : at = sess[s][dir]
  BY DEF IInv, StateType, SessionType
<1>1. /\ sess[s].st = "open" /\ sess[s].w = w /\ sess[s].ptr = p
      /\ NotBusy \in CallType /\ NotBusy.call = "none"
  BY DEF IInv, Calls, CallOk, CallType, NotBusy
<1>2. /\ bufs' = [bufs EXCEPT ![w] = None]
      /\ busy' = [busy EXCEPT ![w] = NotBusy]
      /\ tidConn' = tidConn /\ fdConn' = fdConn /\ sslConn' = sslConn
      /\ evictions' = evictions
  BY DEF ssl_exit
<1>3. sess' = [sess EXCEPT ![s][dir] = at + n]
  BY DEF ssl_exit
<1>5. /\ sess \in [Sessions -> SessionType] /\ busy \in [Workers -> CallType] /\ MapType
      /\ n \in Nat /\ MaxBuf \in Nat
  BY HookAssumption DEF IInv, StateType
<1>6. PICK event \in EventType : /\ event.of = s /\ event.conn = sslConn[w][p]
                                 /\ (HasRoom /\ Submit(event)) \/ ring' = ring
  <2> PICK len \in Nat : len = Smaller(n, MaxBuf)
    BY <1>5 DEF Smaller
  <2> PICK data \in Data : data = SubSeq(Plain(dir)[s], at + 1, at + len)
    <3>1. at + 1 \in Nat /\ at + len \in Nat
      OBVIOUS
    <3> QED BY <3>1, PieceOfPlain
  <2> DEFINE e == [dir |-> dir, pid |-> w, ssl |-> p, conn |-> ConnOf(w, p), len |-> len,
                   data |-> data, of |-> s, read |-> n]
  <2>1. (HasRoom /\ Submit(e)) \/ ring' = ring
    BY DEF ssl_exit
  <2>2. e \in EventType /\ e.of = s /\ e.conn = sslConn[w][p]
    BY <1>5, MapEntries DEF EventType, ConnOf
  <2> QED BY <2>1, <2>2
<1>7. event.of = s /\ event.conn = sslConn[w][p]
  BY <1>6
<1>9. /\ sess' \in [Sessions -> SessionType]
      /\ sess'[s].st = sess[s].st /\ sess'[s].w = sess[s].w /\ sess'[s].fd = sess[s].fd
      /\ sess'[s].ptr = sess[s].ptr
      /\ \A t \in Sessions \ {s} : sess'[t] = sess[t]
  <2>1. CASE dir = "recv"
    BY <1>3, <1>5, <2>1 DEF SessionType
  <2>2. CASE dir = "send"
    BY <1>3, <1>5, <2>2 DEF SessionType
  <2> QED BY <2>1, <2>2
<1>10. /\ busy' \in [Workers -> CallType] /\ busy'[w] = NotBusy
       /\ bufs' \in [Workers -> Ptrs \cup {None}] /\ bufs'[w] = None
       /\ \A v \in Workers \ {w} : busy'[v] = busy[v] /\ bufs'[v] = bufs[v]
  BY <1>1, <1>2, <1>5 DEF MapType
<1>11. /\ ring' \in Seq(EventType) /\ Len(ring') <= MaxRing
       /\ \A x \in SetOf(ring') : x \in SetOf(ring) \/ x = event
  BY <1>6, SubmitStep DEF IInv, StateType
<1>12. StateType'
  BY <1>2, <1>5, <1>9, <1>10, <1>11 DEF IInv, StateType, MapType
<1>13. Calls'
  <2>1. CallOk(w)'
    BY <1>1, <1>2, <1>10 DEF IInv, Calls, CallOk
  <2>2. ASSUME NEW v \in Workers \ {w} PROVE CallOk(v)'
    <3>1. busy[v].call = "none" \/ busy[v].s # s
      BY <1>1, NotShared DEF Live
    <3> QED BY <3>1, <1>2, <1>9, <1>10, OtherCallKept
  <2>3. ASSUME NEW v \in Workers, NEW x \in Workers, busy'[v].call = "accept", busy'[v] = busy'[x]
        PROVE  v = x
    BY <2>3, <1>1, <1>10 DEF IInv, Calls
  <2> QED BY <2>1, <2>2, <2>3 DEF Calls
<1>14. \A t \in Sessions : /\ sess'[t].st = sess[t].st /\ sess'[t].w = sess[t].w
                           /\ sess'[t].fd = sess[t].fd /\ sess'[t].ptr = sess[t].ptr
  BY <1>9
<1>15. Exclusive'
  <2>1. ASSUME NEW t \in Sessions PROVE Placed(t)'
    BY <1>14 DEF IInv, Exclusive, Placed, Live
  <2>2. ASSUME NEW t \in Sessions, NEW u \in Sessions, Clash(t, u)' PROVE t = u
    BY <1>14, <2>2 DEF IInv, Exclusive, Clash, Live
  <2> QED BY <2>1, <2>2 DEF Exclusive
<1>16. Owners'
  <2>1. ASSUME NEW v \in Workers, NEW x \in Fds PROVE FdOwner(v, x)'
    BY <1>1, <1>2, <1>9, FdOwnerKept
  <2>2. ASSUME NEW v \in Workers, NEW x \in Ptrs PROVE SslOwner(v, x)'
    BY <1>1, <1>2, <1>9, SslOwnerKept
  <2>3. ASSUME NEW e \in SetOf(ring) PROVE EventOwner(e)'
    BY <1>1, <1>9, EventOwnerKept
  <2>4. EventOwner(event)'
    <3>1. sslConn[w][p] \in Sessions \cup {None} /\ SslOwner(w, p)
      BY MapEntries
    <3>2. ASSUME sslConn[w][p] # None, ~Dead(sslConn[w][p]) PROVE sslConn[w][p] = s
      BY <3>1, <3>2, <1>1 DEF SslOwner, IInv, Exclusive, Clash, Live
    <3> QED BY <3>1, <3>2, <1>7, <1>14 DEF EventOwner, Dead
  <2> QED BY <2>1, <2>2, <2>3, <2>4, <1>11 DEF Owners
<1>17. Chain'
  <2> SUFFICES ASSUME evictions = 0
               PROVE  /\ \A v \in Workers : busy'[v].call = "accept" => tidConn'[v] = busy'[v].s
                      /\ \A c \in Clients : Linked(c)'
                      /\ \A e \in SetOf(ring') : Attributed(e)
    BY <1>2 DEF Chain, Attributed
  <2>1. Chain
    BY DEF IInv
  <2>2. \A v \in Workers : busy'[v].call = "accept" => tidConn'[v] = busy'[v].s
    BY <2>1, <1>1, <1>2, <1>10 DEF Chain
  <2>3. \A c \in Clients : Linked(c)'
    BY <2>1, <1>2, <1>14, ClientsAreSessions DEF Chain, Linked
  <2>4. Attributed(event)
    BY <2>1, <1>1, <1>7 DEF Chain, Linked, Attributed
  <2> QED BY <2>1, <2>2, <2>3, <2>4, <1>11 DEF Chain
<1> QED BY <1>12, <1>13, <1>15, <1>16, <1>17 DEF IInv

LEMMA FreeStep ==
  ASSUME IInv, NEW w \in Workers, NEW s \in Sessions, ssl_free_entry(w, s)
  PROVE  IInv'
<1> PICK p \in Ptrs : p = sess[s].ptr
  BY DEF ssl_free_entry, IInv, Exclusive, Placed
<1> DEFINE event == [dir |-> "close", pid |-> w, ssl |-> p, conn |-> None,
                     len |-> 0, data |-> <<>>, of |-> s, read |-> 0]
<1>1. /\ busy[w] = NotBusy /\ sess[s].st = "open" /\ sess[s].w = w /\ sess[s].ptr = p
      /\ sess' = [sess EXCEPT ![s] = Closed(s)]
      /\ busy' = busy /\ tidConn' = tidConn /\ fdConn' = fdConn
      /\ bufs' = bufs /\ evictions' = evictions
  BY DEF ssl_free_entry
<1>2. \/ HasRoom /\ Submit(event) /\ sslConn' = [sslConn EXCEPT ![w][p] = None]
      \/ ring' = ring /\ sslConn' = sslConn
  BY DEF ssl_free_entry
<1>3. event \in EventType /\ event.conn = None /\ event.dir = "close"
  BY DEF EventType, Data
<1> HIDE DEF event
<1>4. /\ sess' \in [Sessions -> SessionType] /\ sess'[s].st = "closed"
      /\ \A t \in Sessions \ {s} : sess'[t] = sess[t]
  BY <1>1, Ending
<1>5. /\ sslConn' \in [Workers -> [Ptrs -> Clients \cup {None}]]
      /\ sslConn'[w][p] = None \/ sslConn'[w][p] = sslConn[w][p]
      /\ \A v \in Workers : \A x \in Ptrs : v # w \/ x # p => sslConn'[v][x] = sslConn[v][x]
  <2>1. sslConn \in [Workers -> [Ptrs -> Clients \cup {None}]]
    BY DEF IInv, StateType, MapType
  <2>2. CASE sslConn' = sslConn
    BY <2>1, <2>2
  <2>3. CASE sslConn' = [sslConn EXCEPT ![w][p] = None]
    BY <2>1, <2>3
  <2> QED BY <2>2, <2>3, <1>2
<1>6. /\ ring' \in Seq(EventType) /\ Len(ring') <= MaxRing
      /\ \A x \in SetOf(ring') : x \in SetOf(ring) \/ x = event
  BY <1>2, <1>3, SubmitStep DEF IInv, StateType
<1>7. StateType'
  BY <1>1, <1>4, <1>5, <1>6 DEF IInv, StateType, MapType
<1>8. Calls'
  <2>1. ASSUME NEW v \in Workers PROVE CallOk(v)'
    <3>1. busy[v].call = "none" \/ busy[v].s # s
      BY <1>1, NotShared DEF NotBusy, Live
    <3> QED BY <3>1, <1>1, <1>4, OtherCallKept
  <2> QED BY <2>1, <1>1 DEF IInv, Calls
<1>9. Exclusive'
  BY <1>1, Ending
<1>10. Owners'
  <2>1. ASSUME NEW v \in Workers, NEW x \in Ptrs PROVE SslOwner(v, x)'
    <3>1. sslConn'[v][x] = None \/ sslConn'[v][x] = sslConn[v][x]
      BY <1>5
    <3> QED BY <3>1, <1>1, Ending, ZenonT(60) DEF SslOwner
  <2>2. EventOwner(event)'
    BY <1>3 DEF EventOwner
  <2> QED BY <2>1, <2>2, <1>1, <1>6, Ending DEF Owners
<1>11. Chain'
  <2> SUFFICES ASSUME evictions = 0
               PROVE  /\ \A c \in Clients : Linked(c)'
                      /\ \A e \in SetOf(ring') : Attributed(e)
    BY <1>1 DEF IInv, Chain, Attributed
  <2>1. Chain
    BY DEF IInv
  <2>2. ASSUME NEW c \in Clients PROVE Linked(c)'
    <3>1. CASE c = s
      BY <3>1, <1>4 DEF Linked
    <3>2. CASE c # s
      <4>1. Linked(c) /\ c \in Sessions /\ sess'[c] = sess[c] /\ Placed(c)
        BY <2>1, <3>2, <1>4, ClientsAreSessions DEF IInv, Exclusive, Chain
      <4>2. sess[c].st = "open" => sess[c].w # w \/ sess[c].ptr # p
        BY <4>1, <3>2, <1>1 DEF IInv, Exclusive, Clash, Live
      <4> QED BY <4>1, <4>2, <1>1, <1>5 DEF Linked, Placed, Live
    <3> QED BY <3>1, <3>2
  <2>3. Attributed(event)
    BY <1>3 DEF Attributed
  <2> QED BY <2>1, <2>2, <2>3, <1>6 DEF Chain
<1> QED BY <1>7, <1>8, <1>9, <1>10, <1>11 DEF IInv

-----------------------------------------------------------------------------
(* The kernel and the reader of the ring buffer.                            *)

LEMMA EvictStep ==
  ASSUME IInv, Evict
  PROVE  IInv'
<1>1. /\ evictions \in Nat /\ evictions' = evictions + 1 /\ evictions' <= MaxEvictions
      /\ sess' = sess /\ busy' = busy /\ bufs' = bufs /\ ring' = ring
  BY HookAssumption DEF Evict, IInv, StateType
<1> PICK w \in Workers :
      \/ /\ tidConn' = [tidConn EXCEPT ![w] = None]
         /\ fdConn' = fdConn /\ sslConn' = sslConn
      \/ /\ \E fd \in Fds : fdConn' = [fdConn EXCEPT ![w][fd] = None]
         /\ tidConn' = tidConn /\ sslConn' = sslConn
      \/ /\ \E p \in Ptrs : sslConn' = [sslConn EXCEPT ![w][p] = None]
         /\ tidConn' = tidConn /\ fdConn' = fdConn
  BY DEF Evict
<1>2. MapType
  BY DEF IInv, StateType
<1>3. /\ tidConn' \in [Workers -> Clients \cup {None}]
      /\ \A v \in Workers : tidConn'[v] \in {tidConn[v], None}
  BY <1>2 DEF MapType
<1>4. /\ fdConn' \in [Workers -> [Fds -> Clients \cup {None}]]
      /\ \A v \in Workers : \A x \in Fds : fdConn'[v][x] \in {fdConn[v][x], None}
  <2>1. CASE fdConn' = fdConn
    BY <2>1, <1>2 DEF MapType
  <2>2. ASSUME NEW fd \in Fds, fdConn' = [fdConn EXCEPT ![w][fd] = None]
        PROVE  /\ fdConn' \in [Workers -> [Fds -> Clients \cup {None}]]
               /\ \A v \in Workers : \A x \in Fds : fdConn'[v][x] \in {fdConn[v][x], None}
    BY <2>2, <1>2 DEF MapType
  <2> QED BY <2>1, <2>2
<1>5. /\ sslConn' \in [Workers -> [Ptrs -> Clients \cup {None}]]
      /\ \A v \in Workers : \A x \in Ptrs : sslConn'[v][x] \in {sslConn[v][x], None}
  <2>1. CASE sslConn' = sslConn
    BY <2>1, <1>2 DEF MapType
  <2>2. ASSUME NEW p \in Ptrs, sslConn' = [sslConn EXCEPT ![w][p] = None]
        PROVE  /\ sslConn' \in [Workers -> [Ptrs -> Clients \cup {None}]]
               /\ \A v \in Workers : \A x \in Ptrs : sslConn'[v][x] \in {sslConn[v][x], None}
    BY <2>2, <1>2 DEF MapType
  <2> QED BY <2>1, <2>2
<1>6. StateType'
  BY <1>1, <1>2, <1>3, <1>4, <1>5, HookAssumption DEF IInv, StateType, MapType
<1>7. Calls'
  BY <1>1, <1>3 DEF IInv, Calls, CallOk
<1>8. Exclusive'
  BY <1>1 DEF IInv, Exclusive, Placed, Clash, Live
<1>9. Owners'
  <2>1. ASSUME NEW v \in Workers, NEW x \in Fds PROVE FdOwner(v, x)'
    <3>1. FdOwner(v, x) /\ fdConn'[v][x] \in {fdConn[v][x], None}
      BY <1>4, MapEntries
    <3> QED BY <3>1, <1>1 DEF FdOwner, Dead
  <2>2. ASSUME NEW v \in Workers, NEW x \in Ptrs PROVE SslOwner(v, x)'
    <3>1. SslOwner(v, x) /\ sslConn'[v][x] \in {sslConn[v][x], None}
      BY <1>5, MapEntries
    <3> QED BY <3>1, <1>1 DEF SslOwner, Dead
  <2>3. \A e \in SetOf(ring') : EventOwner(e)'
    BY <1>1 DEF IInv, Owners, EventOwner, Dead, SetOf
  <2> QED BY <2>1, <2>2, <2>3 DEF Owners
<1>10. Chain'
  BY <1>1 DEF Chain
<1> QED BY <1>6, <1>7, <1>8, <1>9, <1>10 DEF IInv

LEMMA ConsumeStep ==
  ASSUME IInv, Consume
  PROVE  IInv'
<1>1. /\ ring # <<>> /\ ring' = Tail(ring) /\ sess' = sess /\ busy' = busy /\ tidConn' = tidConn
      /\ fdConn' = fdConn /\ sslConn' = sslConn /\ bufs' = bufs /\ evictions' = evictions
  BY DEF Consume, maps
<1>2. /\ ring' \in Seq(EventType) /\ Len(ring') <= MaxRing
      /\ \A e \in SetOf(ring') : e \in SetOf(ring)
  <2>1. ring \in Seq(EventType) /\ Len(ring) <= MaxRing /\ MaxRing \in Nat
    BY HookAssumption DEF IInv, StateType
  <2>2. /\ ring' \in Seq(EventType) /\ Len(ring') = Len(ring) - 1 /\ Len(ring) \in Nat
        /\ \A i \in 1 .. Len(ring') : ring'[i] = ring[i + 1]
    BY <1>1, <2>1
  <2>3. ASSUME NEW e \in SetOf(ring') PROVE e \in SetOf(ring)
    <3> PICK i \in 1 .. Len(ring') : e = ring'[i]
      BY DEF SetOf
    <3>1. i + 1 \in 1 .. Len(ring) /\ e = ring[i + 1]
      BY <2>2
    <3> QED BY <3>1 DEF SetOf
  <2> QED BY <2>1, <2>2, <2>3
<1>3. StateType'
  BY <1>1, <1>2 DEF IInv, StateType, MapType
<1>4. Calls'
  BY <1>1 DEF IInv, Calls, CallOk
<1>5. Exclusive'
  BY <1>1 DEF IInv, Exclusive, Placed, Clash, Live
<1>6. Owners'
  BY <1>1, <1>2 DEF IInv, Owners, FdOwner, SslOwner, EventOwner, Dead
<1>7. Chain'
  BY <1>1, <1>2 DEF IInv, Chain, Linked, Attributed
<1> QED BY <1>3, <1>4, <1>5, <1>6, <1>7 DEF IInv

-----------------------------------------------------------------------------
(* The theorems about the probes.                                           *)

LEMMA HookStep == IInv /\ [HookNext \/ Consume]_hookVars => IInv'
<1> SUFFICES ASSUME IInv, [HookNext \/ Consume]_hookVars PROVE IInv'
  OBVIOUS
<1>1. ASSUME NEW w \in Workers, Worker(w) PROVE IInv'
  BY <1>1, AcceptEntryStep, AcceptExitStep, AcceptErrorStep, ConnectStep, CloseSocketStep,
     SetFdStep, EntryStep, ExitNothingStep, ExitStep, FreeStep DEF Worker
<1>2. CASE UNCHANGED hookVars
  <2>1. /\ sess' = sess /\ busy' = busy /\ tidConn' = tidConn /\ fdConn' = fdConn
        /\ sslConn' = sslConn /\ bufs' = bufs /\ ring' = ring /\ evictions' = evictions
    BY <1>2 DEF hookVars, maps
  <2>2. StateType' /\ Calls' /\ Exclusive'
    BY <2>1 DEF IInv, StateType, MapType, Calls, CallOk, Exclusive, Placed, Clash, Live
  <2>3. Owners' /\ Chain'
    BY <2>1 DEF IInv, Owners, FdOwner, SslOwner, EventOwner, Dead, Chain, Linked, Attributed, SetOf
  <2> QED BY <2>2, <2>3 DEF IInv
<1> QED BY <1>1, <1>2, EvictStep, ConsumeStep DEF HookNext

\* The parts of the invariant that the runs check.
LEMMA Consequences ==
  ASSUME IInv
  PROVE  TypeOK /\ ThreadStateConsumed /\ InboundAttribution /\ NeverBlamesALiveClient
<1>1. TypeOK
  BY DEF IInv, StateType, MapType, TypeOK, SessionType, CallType
<1>2. ThreadStateConsumed
  BY DEF IInv, Calls, CallOk, ThreadStateConsumed
<1>3. InboundAttribution
  BY DEF IInv, Chain, Attributed, InboundAttribution
<1>4. NeverBlamesALiveClient
  BY DEF IInv, Owners, EventOwner, Dead, NeverBlamesALiveClient
<1> QED BY <1>1, <1>2, <1>3, <1>4

\* The invariant above holds of the probes, for any workers, descriptors, clients
\* and sizes of the maps and the ring (bpf/ssl_hook.bpf.c).
THEOREM HookInvariant == HookSpec => []IInv
<1> QED BY InitInvariant, HookStep, PTL DEF HookSpec

\* The maps, the events and the sessions of bpf/ssl_hook.bpf.c have their types.
THEOREM HookTypeCorrect == HookSpec => []TypeOK
BY HookInvariant, Consequences, PTL

\* The exit probes of accept, SSL_read and SSL_write consume what the entry
\* probes left for the thread on every path, a failed call and an event that
\* could not be reserved included.
THEOREM ThreadStateIsConsumed == HookSpec => []ThreadStateConsumed
BY HookInvariant, Consequences, PTL

\* tid_to_conn, fd_to_conn and ssl_to_conn bring the client of an accepted
\* socket to every event of its plaintext, however descriptors and SSL addresses
\* are reused and events are lost, as long as the kernel evicts no entry.
THEOREM InboundIsAttributed == HookSpec => []InboundAttribution
BY HookInvariant, Consequences, PTL

\* An event never carries the address of another client that is still
\* connected, with evictions and lost close events included.
THEOREM LiveClientsAreNotBlamed == HookSpec => []NeverBlamesALiveClient
BY HookInvariant, Consequences, PTL

-----------------------------------------------------------------------------
(* The probes with the daemon that reads the ring buffer.                   *)

\* To the probes the loop of internal/sniffer/sniffer.go is a reader that takes
\* the oldest event: the composed system implements the probes' specification,
\* with every daemon step a Consume.
THEOREM CaptureRefinesHook == Spec => HookSpec
<1>1. CaptureInit => Init
  BY DEF CaptureInit
<1>2. [Next]_vars => [HookNext \/ Consume]_hookVars
  <2> SUFFICES ASSUME [Next]_vars PROVE [HookNext \/ Consume]_hookVars
    OBVIOUS
  <2>1. CASE Probes
    BY <2>1 DEF Probes
  <2>2. CASE Daemon
    <3>1. ring # <<>> /\ ring' = Tail(ring)
      BY <2>2 DEF Daemon, User!ReadRecord
    <3> QED BY <2>2, <3>1 DEF Daemon, Consume
  <2>3. CASE UNCHANGED vars
    BY <2>3 DEF vars
  <2> QED BY <2>1, <2>2, <2>3 DEF Next
<1> QED BY <1>1, <1>2, PTL DEF Spec, HookSpec

\* What holds of the probes holds of the capture from end to end.
THEOREM CaptureInherits ==
  Spec => [](TypeOK /\ ThreadStateConsumed /\ InboundAttribution /\ NeverBlamesALiveClient)
BY CaptureRefinesHook, HookInvariant, Consequences, PTL

-----------------------------------------------------------------------------
(* What the daemon keeps for an SSL address. As long as the ring buffer has  *)
(* room, a close event ends whatever a session has left there.               *)

Closes(e, p) == e.ssl = p /\ e.dir = "close"

\* Something begins at p: what the daemon has (0), or the i-th event.
Begins(p, i) ==
  \/ i = 0 /\ connections[p] # None
  \/ i # 0 /\ ring[i].ssl = p /\ ring[i].dir # "close"

Opener(p) == \E s \in Sessions : sess[s].st = "open" /\ sess[s].ptr = p

Released ==
  /\ connections = [p \in Ptrs |-> connections[p]]
  /\ \A p \in Ptrs : \A i \in 0 .. Len(ring) :
       Begins(p, i) /\ (\A k \in i + 1 .. Len(ring) : ~Closes(ring[k], p)) => Opener(p)

\* A turn of the loop in Main, for event e.
Turned(e, n) ==
  /\ n \in Nat /\ Len(ring) = n + 1 /\ Len(ring') = n /\ ring[1] = e
  /\ \A i \in 1 .. n : ring'[i] = ring[i + 1]
  /\ UNCHANGED <<sess, busy, maps, evictions>>
  /\ connections' = [p \in Ptrs |-> connections'[p]]
  /\ \A p \in Ptrs \ {e.ssl} : connections'[p] = connections[p]
  /\ e.ssl \in Ptrs /\ e.dir = "close" => connections'[e.ssl] = None

LEMMA TurnEffect ==
  ASSUME IInv, connections = [p \in Ptrs |-> connections[p]], Daemon
  PROVE  \E e \in EventType : \E n \in Nat : Turned(e, n)
<1>1. ring \in Seq(EventType) /\ ring # <<>> /\ ring' = Tail(ring)
  BY DEF IInv, StateType, Daemon, User!ReadRecord
<1>2. PICK e \in EventType, n \in Nat :
        /\ e = Head(ring) /\ Len(ring) = n + 1 /\ Len(ring') = n /\ ring[1] = e
        /\ \A i \in 1 .. n : ring'[i] = ring[i + 1]
  <2>1. /\ Head(ring) \in EventType /\ Len(ring) \in Nat \ {0} /\ Len(ring') = Len(ring) - 1
        /\ ring[1] = Head(ring) /\ \A i \in 1 .. Len(ring) - 1 : ring'[i] = ring[i + 1]
    BY <1>1
  <2>2. Len(ring) - 1 \in Nat
    BY <2>1
  <2> QED BY <2>1, <2>2
<1>3. User!Close(e) \/ User!HTTP2(e) \/ User!Undecided(e) \/ User!BecomesHTTP2(e) \/ User!HTTP1(e)
  BY <1>2 DEF Daemon, User!ReadRecord
<1>4. PICK v : /\ connections' = [connections EXCEPT ![e.ssl] = v]
               /\ e.dir = "close" => v = None
  <2>1. CASE User!Close(e)
    BY <2>1 DEF User!Close
  <2>2. CASE User!HTTP2(e)
    BY <2>2 DEF User!HTTP2, User!Keep
  <2>3. CASE User!Undecided(e)
    BY <2>3 DEF User!Undecided, User!Keep
  <2>4. CASE User!BecomesHTTP2(e)
    BY <2>4 DEF User!BecomesHTTP2, User!Keep
  <2>5. CASE User!HTTP1(e)
    BY <2>5 DEF User!HTTP1, User!Keep
  <2> QED BY <2>1, <2>2, <2>3, <2>4, <2>5, <1>3
<1>5. /\ connections' = [p \in Ptrs |-> connections'[p]]
      /\ \A p \in Ptrs \ {e.ssl} : connections'[p] = connections[p]
      /\ e.ssl \in Ptrs /\ e.dir = "close" => connections'[e.ssl] = None
  BY <1>4
<1>6. UNCHANGED <<sess, busy, maps, evictions>>
  BY DEF Daemon
<1> QED BY <1>2, <1>5, <1>6 DEF Turned

LEMMA TurnReleased ==
  ASSUME IInv, Released, Daemon
  PROVE  Released'
<1>1. PICK e \in EventType : \E n \in Nat : Turned(e, n)
  BY TurnEffect DEF Released
<1>2. PICK n \in Nat : Turned(e, n)
  BY <1>1
<1>3. /\ Len(ring) = n + 1 /\ Len(ring') = n /\ ring[1] = e
      /\ \A i \in 1 .. n : ring'[i] = ring[i + 1]
      /\ sess' = sess
      /\ connections' = [p \in Ptrs |-> connections'[p]]
      /\ \A p \in Ptrs \ {e.ssl} : connections'[p] = connections[p]
      /\ e.ssl \in Ptrs /\ e.dir = "close" => connections'[e.ssl] = None
  BY <1>2 DEF Turned
<1>4. ASSUME NEW p \in Ptrs, NEW i \in 0 .. n, Begins(p, i)',
             \A k \in i + 1 .. n : ~Closes(ring'[k], p)
      PROVE  Opener(p)
  <2>1. \A k \in i + 2 .. n + 1 : ~Closes(ring[k], p)
    <3> SUFFICES ASSUME NEW k \in i + 2 .. n + 1 PROVE ~Closes(ring[k], p)
      OBVIOUS
    <3>1. PICK j \in i + 1 .. n : j + 1 = k /\ j \in 1 .. n
      <4>1. k - 1 \in i + 1 .. n /\ (k - 1) + 1 = k /\ k - 1 \in 1 .. n
        OBVIOUS
      <4> QED BY <4>1
    <3> QED BY <3>1, <1>3, <1>4
  <2>2. CASE i # 0
    <3>1. ring'[i].ssl = p /\ ring'[i].dir # "close" /\ i \in 1 .. n /\ i + 1 \in 0 .. n + 1
      BY <2>2, <1>4 DEF Begins
    <3>2. Begins(p, i + 1)
      BY <3>1, <1>3 DEF Begins
    <3>3. \A k \in (i + 1) + 1 .. n + 1 : ~Closes(ring[k], p)
      BY <2>1
    <3> QED BY <3>1, <3>2, <3>3, <1>3 DEF Released
  <2>3. CASE i = 0 /\ p = e.ssl
    <3>1. connections'[p] # None
      BY <2>3, <1>4 DEF Begins
    <3>2. Begins(p, 1)
      BY <3>1, <2>3, <1>3 DEF Begins
    <3>3. \A k \in 1 + 1 .. n + 1 : ~Closes(ring[k], p)
      BY <2>1, <2>3
    <3>4. 1 \in 0 .. n + 1
      OBVIOUS
    <3> QED BY <3>2, <3>3, <3>4, <1>3 DEF Released
  <2>4. CASE i = 0 /\ p # e.ssl
    <3>1. Begins(p, 0)
      BY <2>4, <1>3, <1>4 DEF Begins
    <3>2. \A k \in 0 + 1 .. n + 1 : ~Closes(ring[k], p)
      <4> SUFFICES ASSUME NEW k \in 1 .. n + 1 PROVE ~Closes(ring[k], p)
        OBVIOUS
      <4>1. CASE k = 1
        BY <4>1, <2>4, <1>3 DEF Closes
      <4>2. CASE k # 1
        BY <4>2, <2>1, <2>4
      <4> QED BY <4>1, <4>2
    <3>3. 0 \in 0 .. n + 1
      OBVIOUS
    <3> QED BY <3>1, <3>2, <3>3, <1>3 DEF Released
  <2> QED BY <2>2, <2>3, <2>4
<1>5. \A p : Opener(p) => Opener(p)'
  BY <1>3 DEF Opener
<1>6. ASSUME NEW p \in Ptrs, NEW i \in 0 .. Len(ring'), Begins(p, i)',
             \A k \in i + 1 .. Len(ring') : ~Closes(ring'[k], p)
      PROVE  Opener(p)'
  BY <1>3, <1>4, <1>5, <1>6
<1>7. \A k, p : Closes(ring[k], p)' <=> Closes(ring'[k], p)
  BY DEF Closes
<1> QED BY <1>3, <1>6, <1>7 DEF Released

\* The session keeps its SSL address, and what has ended stays so.
Stays(t) ==
  sess[t].st \in {"open", "closed"} =>
    sess'[t].st = sess[t].st /\ sess'[t].ptr = sess[t].ptr /\ sess'[t].w = sess[t].w

Sent(s, e, n) ==
  /\ sess[s].st = "open" /\ e.of = s /\ e.ssl = sess[s].ptr
  /\ n = Len(ring) /\ Len(ring') = n + 1 /\ ring'[n + 1] = e
  /\ \A i \in 1 .. n : ring'[i] = ring[i]

\* A step of nginx while the ring buffer has room: no event, or one of session s.
Quiet == ring' = ring /\ \A t \in Sessions : Stays(t)
Hooked(s, e, n) ==
  \/ Sent(s, e, n) /\ e.dir # "close" /\ \A t \in Sessions : Stays(t)
  \/ /\ Sent(s, e, n) /\ e.dir = "close"
     /\ sess'[s].st = "closed" /\ \A t \in Sessions \ {s} : Stays(t)

LEMMA AppendOne ==
  ASSUME IInv, NEW e \in EventType, ring' = Append(ring, e)
  PROVE  \E n \in Nat : /\ n = Len(ring) /\ Len(ring') = n + 1 /\ ring'[n + 1] = e
                        /\ \A i \in 1 .. n : ring'[i] = ring[i]
<1>1. ring \in Seq(EventType)
  BY DEF IInv, StateType
<1> QED BY <1>1

LEMMA OthersStay ==
  ASSUME IInv, NEW s \in Sessions, NEW r, sess' = [sess EXCEPT ![s] = r]
  PROVE  /\ sess'[s] = r /\ \A t \in Sessions \ {s} : Stays(t)
         /\ sess[s].st \notin {"open", "closed"} => \A t \in Sessions : Stays(t)
BY DEF IInv, StateType, Stays

LEMMA WorkerEffect ==
  ASSUME IInv, HasRoom, NEW w \in Workers, Worker(w)
  PROVE  Quiet \/ \E s \in Sessions, e \in EventType, n \in Nat : Hooked(s, e, n)
<1>1. sess \in [Sessions -> SessionType]
  BY DEF IInv, StateType
<1>3. ASSUME NEW c \in Clients, inet_csk_accept_exit(w, c)
      PROVE  ring' = ring /\ \A t \in Sessions : Stays(t)
  <2>1. /\ c \in Sessions /\ sess[c].st = "new" /\ ring' = ring
        /\ sess' = [sess EXCEPT ![c].st = "accepting"]
    BY <1>3, ClientsAreSessions DEF inet_csk_accept_exit
  <2> QED BY <2>1, <1>1 DEF Stays
<1>4. ASSUME NEW s \in Sessions, sess[s].st \notin {"open", "closed"}, NEW r,
             sess' = [sess EXCEPT ![s] = r]
      PROVE  \A t \in Sessions : Stays(t)
  BY <1>4, OthersStay
<1>5. ASSUME NEW fd \in Fds, accept_exit(w, fd) PROVE ring' = ring /\ \A t \in Sessions : Stays(t)
  <2>1. PICK c \in Clients : c = busy[w].s /\ sess[c].st = "accepting"
    BY <1>5 DEF accept_exit, IInv, Calls, CallOk
  <2> QED BY <2>1, <1>4, <1>5, ClientsAreSessions DEF accept_exit
<1>6. ASSUME accept_exit_error(w) PROVE ring' = ring /\ \A t \in Sessions : Stays(t)
  <2>1. PICK c \in Clients : c = busy[w].s /\ sess[c].st = "accepting"
    BY <1>6 DEF accept_exit_error, IInv, Calls, CallOk
  <2> QED BY <2>1, <1>4, <1>6, ClientsAreSessions DEF accept_exit_error
<1>7. ASSUME NEW u \in Upstreams, NEW fd \in Fds, Connect(w, u, fd)
      PROVE  ring' = ring /\ \A t \in Sessions : Stays(t)
  BY <1>4, <1>7, ClientsAreSessions DEF Connect
<1>8. ASSUME NEW s \in Sessions, CloseSocket(w, s)
      PROVE  ring' = ring /\ \A t \in Sessions : Stays(t)
  BY <1>4, <1>8 DEF CloseSocket
<1>9. ASSUME NEW s \in Sessions, NEW p \in Ptrs, ssl_set_fd(w, s, p)
      PROVE  ring' = ring /\ \A t \in Sessions : Stays(t)
  BY <1>4, <1>9 DEF ssl_set_fd
<1>10. ASSUME NEW s \in Sessions, NEW dir \in {"recv", "send"}, ssl_entry(w, s, dir)
       PROVE  ring' = ring /\ \A t \in Sessions : Stays(t)
  BY <1>10 DEF ssl_entry, Stays
<1>11. ASSUME ssl_exit_nothing(w) PROVE ring' = ring /\ \A t \in Sessions : Stays(t)
  BY <1>11 DEF ssl_exit_nothing, Stays
<1>12. ASSUME NEW n \in 1 .. MaxCall, ssl_exit(w, n)
       PROVE  \E s \in Sessions, e \in EventType, m \in Nat : Hooked(s, e, m)
  <2>1. PICK s \in Sessions, p \in Ptrs, dir \in {"recv", "send"} :
          /\ s = busy[w].s /\ p = bufs[w] /\ dir = busy[w].call
          /\ sess[s].st = "open" /\ sess[s].ptr = p
    BY <1>12, ClientsAreSessions DEF ssl_exit, IInv, Calls, CallOk, Exclusive, Placed
  <2>2. PICK e : /\ ring' = Append(ring, e) /\ e.of = s /\ e.ssl = p /\ e.dir = dir
    <3>1. HasRoom => ring' = Append(ring,
            [dir |-> dir, pid |-> w, ssl |-> p, conn |-> ConnOf(w, p), len |-> Smaller(n, MaxBuf),
             data |-> SubSeq(Plain(dir)[s], sess[s][dir] + 1, sess[s][dir] + Smaller(n, MaxBuf)),
             of |-> s, read |-> n])
      BY <2>1, <1>12 DEF ssl_exit, Submit
    <3> QED BY <3>1
  <2>3. e \in EventType
    <3>1. ring \in Seq(EventType)
      BY DEF IInv, StateType
    <3>2. IInv'
      BY <1>12, ExitStep
    <3>3. ring' \in Seq(EventType)
      BY <3>2 DEF IInv, StateType, EventType, Data, Sessions
    <3> QED BY <3>1, <3>3, <2>2
  <2>4. PICK m \in Nat : /\ m = Len(ring) /\ Len(ring') = m + 1 /\ ring'[m + 1] = e
                         /\ \A i \in 1 .. m : ring'[i] = ring[i]
    BY <2>2, <2>3, AppendOne
  <2>5. \A t \in Sessions : Stays(t)
    <3>1. sess' = [sess EXCEPT ![s][dir] = sess[s][dir] + n]
      BY <2>1, <1>12 DEF ssl_exit
    <3>2. /\ sess'[s].st = sess[s].st /\ sess'[s].ptr = sess[s].ptr /\ sess'[s].w = sess[s].w
          /\ \A t \in Sessions \ {s} : sess'[t] = sess[t]
      <4>1. CASE dir = "recv"
        BY <3>1, <4>1, <1>1 DEF SessionType
      <4>2. CASE dir = "send"
        BY <3>1, <4>2, <1>1 DEF SessionType
      <4> QED BY <4>1, <4>2
    <3> QED BY <3>2 DEF Stays
  <2>6. Hooked(s, e, m)
    BY <2>1, <2>2, <2>4, <2>5 DEF Hooked, Sent
  <2> QED BY <2>3, <2>6
<1>13. ASSUME NEW s \in Sessions, ssl_free_entry(w, s)
       PROVE  \E t \in Sessions, e \in EventType, m \in Nat : Hooked(t, e, m)
  <2>1. PICK p \in Ptrs : p = sess[s].ptr /\ sess[s].st = "open"
    BY <1>13 DEF ssl_free_entry, IInv, Exclusive, Placed
  <2>2. PICK e \in EventType : /\ e.dir = "close" /\ e.ssl = p /\ e.of = s
                               /\ ring' = Append(ring, e)
    <3>1. [dir |-> "close", pid |-> w, ssl |-> p, conn |-> None, len |-> 0, data |-> <<>>,
           of |-> s, read |-> 0] \in EventType
      BY DEF EventType, Data
    <3>2. ring' = Append(ring,
            [dir |-> "close", pid |-> w, ssl |-> p, conn |-> None, len |-> 0, data |-> <<>>,
             of |-> s, read |-> 0])
      BY <2>1, <1>13 DEF ssl_free_entry, Submit
    <3> QED BY <3>1, <3>2
  <2>3. PICK m \in Nat : /\ m = Len(ring) /\ Len(ring') = m + 1 /\ ring'[m + 1] = e
                         /\ \A i \in 1 .. m : ring'[i] = ring[i]
    BY <2>2, AppendOne
  <2>4. sess'[s].st = "closed" /\ \A t \in Sessions \ {s} : Stays(t)
    <3>1. sess' = [sess EXCEPT ![s] = Closed(s)]
      BY <1>13 DEF ssl_free_entry
    <3> QED BY <3>1, <1>1, OthersStay, ClosedRecord
  <2> QED BY <2>1, <2>2, <2>3, <2>4 DEF Hooked, Sent
<1> QED BY <1>3, <1>5, <1>6, <1>7, <1>8, <1>9, <1>10, <1>11, <1>12, <1>13 DEF Worker, Quiet

LEMMA ReleasedAfter ==
  ASSUME Released, connections' = connections,
         NEW n \in Nat, Len(ring) = n, NEW m \in Nat, Len(ring') = m, n <= m,
         \A i \in 1 .. n : ring'[i] = ring[i],
         \A p \in Ptrs :
           \/ Opener(p)'
           \/ \E k \in n + 1 .. m : Closes(ring'[k], p) /\ \A i \in k + 1 .. m : ring'[i].ssl # p
           \/ (Opener(p) => Opener(p)') /\ \A i \in n + 1 .. m : ring'[i].ssl # p
  PROVE  Released'
<1>1. ASSUME NEW p \in Ptrs, NEW i \in 0 .. m, Begins(p, i)',
             \A k \in i + 1 .. m : ~Closes(ring'[k], p)
      PROVE  Opener(p)'
  <2>1. CASE \E k \in n + 1 .. m : Closes(ring'[k], p) /\ \A x \in k + 1 .. m : ring'[x].ssl # p
    <3>1. PICK k \in n + 1 .. m : Closes(ring'[k], p) /\ \A x \in k + 1 .. m : ring'[x].ssl # p
      BY <2>1
    <3>2. ~(k \in i + 1 .. m)
      BY <3>1, <1>1
    <3>3. i = k \/ i \in k + 1 .. m
      BY <3>2
    <3>4. i # 0
      BY <3>3
    <3>5. ring'[i].ssl = p /\ ring'[i].dir # "close"
      BY <3>4, <1>1 DEF Begins
    <3> QED BY <3>1, <3>3, <3>5 DEF Closes
  <2>2. CASE (Opener(p) => Opener(p)') /\ \A x \in n + 1 .. m : ring'[x].ssl # p
    <3>1. i \in 0 .. n
      <4>1. CASE i \in n + 1 .. m
        BY <4>1, <2>2, <1>1 DEF Begins
      <4> QED BY <4>1
    <3>2. Begins(p, i)
      BY <3>1, <1>1 DEF Begins
    <3>3. \A k \in i + 1 .. n : ~Closes(ring[k], p)
      BY <1>1 DEF Closes
    <3> QED BY <3>1, <3>2, <3>3, <2>2 DEF Released
  <2> QED BY <2>1, <2>2
<1>2. \A k, p : Closes(ring[k], p)' <=> Closes(ring'[k], p)
  BY DEF Closes
<1> QED BY <1>1, <1>2 DEF Released

LEMMA HookReleased ==
  ASSUME IInv, Released, HasRoom, Probes
  PROVE  Released'
<1>1. connections' = connections
  BY DEF Probes, daemonVars
<1>2. ring \in Seq(EventType) /\ Len(ring) \in Nat
  BY DEF IInv, StateType
<1>3. CASE Quiet
  <2>1. \A p \in Ptrs : Opener(p) => Opener(p)'
    BY <1>3 DEF Quiet, Stays, Opener
  <2>2. PICK n \in Nat : n = Len(ring)
    BY <1>2
  <2>3. Len(ring') = n /\ ring' = ring /\ \A i : ~(i \in n + 1 .. n)
    BY <2>2, <1>3 DEF Quiet
  <2> QED BY <1>1, <2>1, <2>2, <2>3, ReleasedAfter
<1>4. ASSUME NEW s \in Sessions, NEW e \in EventType, NEW n \in Nat, Hooked(s, e, n)
      PROVE  Released'
  <2>1. /\ n = Len(ring) /\ Len(ring') = n + 1 /\ ring'[n + 1] = e
        /\ \A i \in 1 .. n : ring'[i] = ring[i]
        /\ sess[s].st = "open" /\ e.ssl = sess[s].ptr
        /\ \A t \in Sessions \ {s} : Stays(t)
    BY <1>4 DEF Hooked, Sent
  <2>2. ASSUME NEW p \in Ptrs \ {e.ssl} PROVE Opener(p) => Opener(p)'
    BY <2>1 DEF Opener, Stays
  <2>3. Opener(e.ssl)' \/ e.dir = "close"
    BY <1>4, <2>1 DEF Hooked, Stays, Opener
  <2>4. \A k \in (n + 1) + 1 .. n + 1 : FALSE
    OBVIOUS
  <2>5. /\ n + 1 \in Nat /\ n <= n + 1 /\ n + 1 \in n + 1 .. n + 1
        /\ \A i \in n + 1 .. n + 1 : i = n + 1
    OBVIOUS
  <2>6. ASSUME NEW p \in Ptrs
        PROVE  \/ Opener(p)'
               \/ \E k \in n + 1 .. n + 1 : /\ Closes(ring'[k], p)
                                            /\ \A i \in k + 1 .. n + 1 : ring'[i].ssl # p
               \/ (Opener(p) => Opener(p)') /\ \A i \in n + 1 .. n + 1 : ring'[i].ssl # p
    <3>1. CASE p = e.ssl
      BY <3>1, <2>1, <2>3, <2>4, <2>5 DEF Closes
    <3>2. CASE p # e.ssl
      BY <3>2, <2>1, <2>2, <2>5
    <3> QED BY <3>1, <3>2
  <2> QED BY <1>1, <2>1, <2>5, <2>6, ReleasedAfter
<1>5. CASE \E w \in Workers : Worker(w)
  BY <1>3, <1>4, <1>5, WorkerEffect
<1>6. CASE Evict
  <2>1. Quiet
    BY <1>6 DEF Evict, Quiet, Stays
  <2> QED BY <2>1, <1>3
<1> QED BY <1>5, <1>6 DEF Probes, HookNext

\* As long as the ring buffer has room for the close events, a session that
\* SSL_free ended leaves no connection behind under its address: when the ring
\* is empty, what internal/sniffer/sniffer.go keeps belongs to an open session.
THEOREM ConnectionsAreReleased == Spec /\ []HasRoom => []ConnectionsReleased
<1>1. CaptureInit => Released
  <2> SUFFICES ASSUME CaptureInit PROVE Released
    OBVIOUS
  <2>1. ring = <<>> /\ Len(ring) = 0 /\ connections = [p \in Ptrs |-> None]
    BY DEF CaptureInit, Init, User!InitSniffer
  <2> QED BY <2>1 DEF Released, Begins
<1>2. IInv /\ Released /\ HasRoom /\ [Next]_vars => Released'
  <2> SUFFICES ASSUME IInv, Released, HasRoom, [Next]_vars PROVE Released'
    OBVIOUS
  <2>1. CASE UNCHANGED vars
    BY <2>1 DEF vars, hookVars, daemonVars, Released, Begins, Closes, Opener
  <2> QED BY <2>1, HookReleased, TurnReleased DEF Next
<1>3. Released => ConnectionsReleased
  <2> SUFFICES ASSUME Released, ring = <<>>, NEW p \in Ptrs, connections[p] # None PROVE Opener(p)
    BY DEF ConnectionsReleased, Opener
  <2>1. Len(ring) = 0 /\ 0 \in 0 .. 0 /\ \A k \in 0 + 1 .. 0 : FALSE
    OBVIOUS
  <2> QED BY <2>1 DEF Released, Begins
<1> QED BY <1>1, <1>2, <1>3, CaptureRefinesHook, HookInvariant, PTL DEF Spec

-----------------------------------------------------------------------------
(* What logPoison has reported.                                             *)

Fields == DOMAIN User!NewConnection
\* The daemon's map has a connection or nothing under an address.
NoneIsNoConnection == DOMAIN None # Fields

\* A connection is reported when it has a poisoned direction, and only then.
KeptOk(c) ==
  /\ DOMAIN c = Fields
  /\ c.h2logged \in BOOLEAN /\ (c.poisoned # {} <=> c.h2logged)

Marked(p) == connections[p] # None /\ connections[p].h2logged

\* What a turn of the loop in Main does to the connection of event e.
TurnLogs(e) ==
  /\ e.dir = "close" => poisonLogs' = poisonLogs
  /\ e.dir # "close" /\ e.ssl \in Ptrs =>
       /\ connections'[e.ssl] # None /\ KeptOk(connections'[e.ssl])
       /\ \/ poisonLogs' = poisonLogs /\ (Marked(e.ssl) => connections'[e.ssl].h2logged)
          \/ /\ poisonLogs' = Append(poisonLogs, e.conn)
             /\ connections'[e.ssl].h2logged /\ ~Marked(e.ssl)

LEMMA FieldsAre ==
  Fields = {"proto", "recv", "send", "poisoned", "h2logged", "fedCut"}
BY DEF Fields, User!NewConnection

LEMMA FeedEffect ==
  ASSUME NEW c, DOMAIN c = Fields, NEW dir \in {"recv", "send"}, NEW data, NEW truncated
  PROVE  /\ DOMAIN User!Feed(c, dir, data, truncated) = Fields
         /\ User!Feed(c, dir, data, truncated).h2logged = c.h2logged
         /\ c.poisoned \subseteq User!Feed(c, dir, data, truncated).poisoned
<1>1. PICK f : f = User!Feed(c, dir, data, truncated)
  OBVIOUS
<1>2. CASE truncated \/ dir \in c.poisoned
  <2>1. f = [c EXCEPT !.poisoned = @ \cup {dir}, ![dir] = <<>>]
    BY <1>1, <1>2 DEF User!Feed
  <2> QED BY <1>1, <2>1, FieldsAre
<1>3. CASE ~(truncated \/ dir \in c.poisoned)
  <2>1. f = [c EXCEPT ![dir] = User!Remainder(c[dir] \o data)]
    BY <1>1, <1>3 DEF User!Feed
  <2> QED BY <1>1, <2>1, FieldsAre
<1> QED BY <1>2, <1>3

LEMMA ReportedEffect ==
  ASSUME NEW c, DOMAIN c = Fields, c.h2logged \in BOOLEAN, c.h2logged => c.poisoned # {}
  PROVE  /\ KeptOk(User!Reported(c))
         /\ User!Reported(c).h2logged = (c.poisoned # {})
<1>1. PICK r : r = User!Reported(c)
  OBVIOUS
<1>2. /\ DOMAIN r = Fields /\ r.h2logged = (c.h2logged \/ c.poisoned # {})
      /\ r.poisoned = c.poisoned
  BY <1>1, FieldsAre DEF User!Reported
<1> QED BY <1>1, <1>2 DEF KeptOk

LEMMA ConnectionEffect ==
  ASSUME NEW e, e.ssl \in Ptrs, connections[e.ssl] # None => KeptOk(connections[e.ssl])
  PROVE  /\ KeptOk(User!Connection(e)) /\ (User!Connection(e).h2logged <=> Marked(e.ssl))
<1>1. KeptOk(User!NewConnection) /\ User!NewConnection.h2logged = FALSE
  BY DEF KeptOk, Fields, User!NewConnection
<1>2. PICK c : /\ c = IF connections[e.ssl] = None THEN User!NewConnection ELSE connections[e.ssl]
  OBVIOUS
<1>3. KeptOk(c) /\ (c.h2logged <=> Marked(e.ssl))
  BY <1>1, <1>2 DEF Marked
<1>4. PICK v : User!Connection(e) = [c EXCEPT !.fedCut = v]
  BY <1>2 DEF User!Connection
<1> QED BY <1>3, <1>4, FieldsAre DEF KeptOk

LEMMA TurnReports ==
  ASSUME NoneIsNoConnection, IInv, Daemon,
         connections = [p \in Ptrs |-> connections[p]],
         \A p \in Ptrs : connections[p] # None => KeptOk(connections[p])
  PROVE  \E e \in EventType : e = Head(ring) /\ TurnLogs(e)
<1>1. PICK e : e = Head(ring)
  OBVIOUS
<1>2. e \in EventType
  BY <1>1 DEF Daemon, User!ReadRecord, IInv, StateType
<1> SUFFICES TurnLogs(e)
  BY <1>1, <1>2
<1>3. CASE User!Close(e)
  BY <1>1, <1>3 DEF User!Close, TurnLogs
<1>4. CASE e.dir # "close" /\ e.ssl \in Ptrs /\ ~User!Close(e)
  <2>1. e.dir \in {"recv", "send"}
    BY <1>2, <1>4 DEF EventType
  <2>2. PICK c : c = User!Connection(e)
    OBVIOUS
  <2>3. KeptOk(c) /\ (c.h2logged <=> Marked(e.ssl)) /\ DOMAIN c = Fields
    BY <2>2, <1>4, ConnectionEffect DEF KeptOk
  <2>4. PICK b : b = User!Buffered(e)
    OBVIOUS
  <2>5. DOMAIN b = Fields /\ b.h2logged = c.h2logged /\ b.poisoned = c.poisoned
    <3>1. b = [c EXCEPT ![e.dir] = c[e.dir] \o e.data]
      BY <2>2, <2>4 DEF User!Buffered
    <3> QED BY <3>1, <2>1, <2>3, FieldsAre
  <2>6. KeptOk(b)
    BY <2>3, <2>5 DEF KeptOk
  <2>7. ASSUME NEW f, DOMAIN f = Fields, f.h2logged = c.h2logged, c.poisoned \subseteq f.poisoned,
               connections' = [connections EXCEPT ![e.ssl] = User!Reported(f)],
               poisonLogs' = IF f.poisoned # {} /\ ~f.h2logged THEN Append(poisonLogs, e.conn)
                             ELSE poisonLogs
        PROVE  TurnLogs(e)
    <3>1. f.h2logged \in BOOLEAN /\ (f.h2logged => f.poisoned # {})
      BY <2>3, <2>7 DEF KeptOk
    <3>2. PICK r : r = User!Reported(f)
      OBVIOUS
    <3>3. KeptOk(r) /\ r.h2logged = (f.poisoned # {})
      BY <3>1, <3>2, <2>7, ReportedEffect
    <3>4. connections'[e.ssl] = r
      BY <2>7, <3>2, <1>4
    <3>5. r # None
      BY <3>3 DEF NoneIsNoConnection, KeptOk
    <3>6. poisonLogs' = IF f.poisoned # {} /\ ~f.h2logged THEN Append(poisonLogs, e.conn)
                        ELSE poisonLogs
      BY <2>7
    <3> QED BY <3>1, <3>3, <3>4, <3>5, <3>6, <2>3, <2>7, <1>4 DEF TurnLogs
  <2>8. ASSUME NEW f, KeptOk(f), f.h2logged = c.h2logged,
               connections' = [connections EXCEPT ![e.ssl] = f], poisonLogs' = poisonLogs
        PROVE  TurnLogs(e)
    <3>1. connections'[e.ssl] = f
      BY <2>8, <1>4
    <3>2. f # None
      BY <2>8 DEF NoneIsNoConnection, KeptOk
    <3> QED BY <3>1, <3>2, <2>3, <2>8, <1>4 DEF TurnLogs
  <2>9. CASE User!HTTP2(e)
    <3>1. PICK f : f = User!Feed(c, e.dir, e.data, e.len = MaxBuf)
      OBVIOUS
    <3>2. DOMAIN f = Fields /\ f.h2logged = c.h2logged /\ c.poisoned \subseteq f.poisoned
      BY <3>1, <2>1, <2>3, FeedEffect
    <3>3. /\ connections' = [connections EXCEPT ![e.ssl] = User!Reported(f)]
          /\ poisonLogs' = IF f.poisoned # {} /\ ~f.h2logged THEN Append(poisonLogs, e.conn)
                           ELSE poisonLogs
      BY <3>1, <2>2, <2>9 DEF User!HTTP2, User!Keep, User!logPoison
    <3> QED BY <3>2, <3>3, <2>7
  <2>10. CASE User!Undecided(e)
    <3>1. connections' = [connections EXCEPT ![e.ssl] = b] /\ poisonLogs' = poisonLogs
      BY <2>10, <2>4 DEF User!Undecided, User!Keep
    <3> QED BY <3>1, <2>5, <2>6, <2>8
  <2>11. CASE User!BecomesHTTP2(e)
    <3>1. PICK h : h = [b EXCEPT !.proto = "h2", !.recv = <<>>, !.send = <<>>]
      OBVIOUS
    <3>2. DOMAIN h = Fields /\ h.h2logged = c.h2logged /\ h.poisoned = c.poisoned
      BY <3>1, <2>5, FieldsAre
    <3>8. PICK rest : rest = SubSeq(b.recv, User!Preface + 1, Len(b.recv))
      OBVIOUS
    <3>3. PICK g : g = User!Feed(h, "recv", rest, FALSE)
      OBVIOUS
    <3>4. DOMAIN g = Fields /\ g.h2logged = c.h2logged /\ c.poisoned \subseteq g.poisoned
      <4>1. "recv" \in {"recv", "send"}
        OBVIOUS
      <4>2. DOMAIN h = Fields
        BY <3>2
      <4>3. /\ DOMAIN User!Feed(h, "recv", rest, FALSE) = Fields
            /\ User!Feed(h, "recv", rest, FALSE).h2logged = h.h2logged
            /\ h.poisoned \subseteq User!Feed(h, "recv", rest, FALSE).poisoned
        BY <4>1, <4>2, FeedEffect
      <4> QED BY <4>3, <3>2, <3>3
    <3>5. PICK f : f = User!Feed(g, "send", b.send, FALSE)
      OBVIOUS
    <3>6. DOMAIN f = Fields /\ f.h2logged = c.h2logged /\ c.poisoned \subseteq f.poisoned
      <4>1. DOMAIN f = Fields /\ f.h2logged = g.h2logged /\ g.poisoned \subseteq f.poisoned
        BY <3>4, <3>5, FeedEffect
      <4> QED BY <4>1, <3>4
    <3>7. /\ connections' = [connections EXCEPT ![e.ssl] = User!Reported(f)]
          /\ poisonLogs' = IF f.poisoned # {} /\ ~f.h2logged THEN Append(poisonLogs, e.conn)
                           ELSE poisonLogs
      BY <3>1, <3>8, <3>3, <3>5, <2>4, <2>11 DEF User!BecomesHTTP2, User!Keep, User!logPoison
    <3> QED BY <3>6, <3>7, <2>7
  <2>12. CASE User!HTTP1(e)
    <3>1. PICK f : f = [b EXCEPT !.proto = "h1", ![e.dir] = User!Remainder(b[e.dir])]
      OBVIOUS
    <3>2. DOMAIN f = Fields /\ f.h2logged = b.h2logged /\ f.poisoned = b.poisoned
      BY <3>1, <2>1, <2>5, FieldsAre
    <3>3. KeptOk(f)
      BY <3>2, <2>6 DEF KeptOk
    <3>4. connections' = [connections EXCEPT ![e.ssl] = f] /\ poisonLogs' = poisonLogs
      BY <3>1, <2>4, <2>12 DEF User!HTTP1, User!Keep
    <3> QED BY <3>2, <3>3, <3>4, <2>5, <2>8
  <2> QED BY <2>9, <2>10, <2>11, <2>12, <1>1, <1>4 DEF Daemon, User!ReadRecord
<1>5. e.dir = "close" => User!Close(e)
  BY <1>1 DEF Daemon, User!ReadRecord, User!HTTP2, User!Undecided, User!BecomesHTTP2, User!HTTP1
<1> QED BY <1>1, <1>3, <1>4, <1>5 DEF TurnLogs

-----------------------------------------------------------------------------
(* The order of the events in the ring buffer r, for sessions f.            *)

EndsIn(r, i, n) == \E k \in i .. n : r[k].of = r[i].of /\ r[k].dir = "close"

\* A session's events have one SSL address and the close event is the last of
\* them; the close event of a session comes before the address has another.
Ordered(r) ==
  \A i, j \in 1 .. Len(r) : i < j =>
    /\ r[i].of = r[j].of => r[i].dir # "close" /\ r[i].ssl = r[j].ssl
    /\ r[i].of # r[j].of /\ r[i].ssl = r[j].ssl => EndsIn(r, i, j - 1)

Owned(r, f) ==
  \A i \in 1 .. Len(r) :
    /\ r[i].ssl \in Ptrs /\ r[i].of \in Sessions
    /\ \/ f[r[i].of].st = "open" /\ r[i].ssl = f[r[i].of].ptr /\ r[i].dir # "close"
       \/ f[r[i].of].st = "closed" /\ EndsIn(r, i, Len(r))

\* Of the clients in R that were reported: the connection of their address is in
\* M, the marked ones, for as long as they have events.
Only(r, i, p, c) == r[i].ssl = p => r[i].of = c /\ r[i].dir # "close"
ReportedOk(r, f, M, R) ==
  \A c \in R :
    /\ \/ f[c].st = "open" /\ f[c].ptr \in M /\ \A i \in 1 .. Len(r) : Only(r, i, f[c].ptr, c)
       \/ f[c].st = "closed"
    /\ \A i \in 1 .. Len(r) : r[i].of = c =>
         r[i].ssl \in M /\ \A j \in 1 .. i - 1 : Only(r, j, r[i].ssl, c)

Shifted(r, q, n) ==
  n \in Nat /\ Len(r) = n + 1 /\ Len(q) = n /\ \A i \in 1 .. n : q[i] = r[i + 1]

LEMMA ShiftOne ==
  ASSUME NEW n \in Nat, NEW i \in 1 .. n
  PROVE  i + 1 \in 1 .. n + 1
OBVIOUS

LEMMA ShiftEnds ==
  ASSUME NEW r, NEW q, NEW n \in Nat, Shifted(r, q, n), NEW i \in 1 .. n, NEW j \in 0 .. n,
         EndsIn(r, i + 1, j + 1)
  PROVE  EndsIn(q, i, j)
<1>1. PICK k \in i + 1 .. j + 1 : r[k].of = r[i + 1].of /\ r[k].dir = "close"
  BY DEF EndsIn
<1>2. PICK m \in i .. j : m + 1 = k /\ m \in 1 .. n
  <2>1. k - 1 \in i .. j /\ (k - 1) + 1 = k /\ k - 1 \in 1 .. n
    OBVIOUS
  <2> QED BY <2>1
<1>3. q[m] = r[k] /\ q[i] = r[i + 1]
  BY <1>2 DEF Shifted
<1> QED BY <1>1, <1>2, <1>3 DEF EndsIn

LEMMA OrderShifted ==
  ASSUME NEW r, NEW q, NEW f, NEW n \in Nat, Shifted(r, q, n), Ordered(r), Owned(r, f)
  PROVE  Ordered(q) /\ Owned(q, f)
<1>1. Len(r) = n + 1 /\ Len(q) = n /\ \A i \in 1 .. n : q[i] = r[i + 1]
  BY DEF Shifted
<1>2. ASSUME NEW i \in 1 .. n, NEW j \in 1 .. n, i < j
      PROVE  /\ q[i].of = q[j].of => q[i].dir # "close" /\ q[i].ssl = q[j].ssl
             /\ q[i].of # q[j].of /\ q[i].ssl = q[j].ssl => EndsIn(q, i, j - 1)
  <2>1. PICK a \in 1 .. n + 1, b \in 1 .. n + 1 : a = i + 1 /\ b = j + 1 /\ a < b
    BY <1>2, ShiftOne
  <2>2. /\ r[a].of = r[b].of => r[a].dir # "close" /\ r[a].ssl = r[b].ssl
        /\ r[a].of # r[b].of /\ r[a].ssl = r[b].ssl => EndsIn(r, a, b - 1)
    BY <2>1, <1>1 DEF Ordered
  <2>3. PICK d \in 0 .. n : d = j - 1 /\ d + 1 = b - 1
    <3>1. j - 1 \in 0 .. n /\ (j - 1) + 1 = b - 1
      BY <2>1
    <3> QED BY <3>1
  <2>4. EndsIn(r, a, b - 1) => EndsIn(q, i, j - 1)
    BY <2>1, <2>3, ShiftEnds
  <2> QED BY <2>1, <2>2, <2>4, <1>1
<1>3. ASSUME NEW i \in 1 .. n
      PROVE  /\ q[i].ssl \in Ptrs /\ q[i].of \in Sessions
             /\ \/ f[q[i].of].st = "open" /\ q[i].ssl = f[q[i].of].ptr /\ q[i].dir # "close"
                \/ f[q[i].of].st = "closed" /\ EndsIn(q, i, n)
  <2>1. PICK a \in 1 .. n + 1 : a = i + 1 /\ q[i] = r[a]
    BY <1>1, ShiftOne
  <2>2. EndsIn(r, a, n + 1) => EndsIn(q, i, n)
    BY <2>1, ShiftEnds
  <2> QED BY <2>1, <2>2, <1>1 DEF Owned
<1> QED BY <1>1, <1>2, <1>3 DEF Ordered, Owned

\* Event e of the open session s is appended, and no other open session has
\* its SSL address.
Grown(r, q, n, e, s, f, g) ==
  /\ n = Len(r) /\ Len(q) = n + 1 /\ q[n + 1] = e /\ \A i \in 1 .. n : q[i] = r[i]
  /\ f[s].st = "open" /\ e.of = s /\ e.ssl = f[s].ptr /\ e.ssl \in Ptrs
  /\ \A t \in Sessions : f[t].st = "open" /\ f[t].ptr = f[s].ptr => t = s
  /\ \A t \in Sessions \ {s} :
       f[t].st \in {"open", "closed"} => g[t].st = f[t].st /\ g[t].ptr = f[t].ptr
  /\ \/ e.dir # "close" /\ g[s].st = "open" /\ g[s].ptr = f[s].ptr
     \/ e.dir = "close" /\ g[s].st = "closed"

LEMMA EndsGrown ==
  ASSUME NEW r, NEW q, NEW n \in Nat, \A i \in 1 .. n : q[i] = r[i],
         NEW i \in 1 .. n, NEW j \in 0 .. n, EndsIn(r, i, j), NEW m \in Nat, j <= m
  PROVE  EndsIn(q, i, m)
<1>1. PICK k \in i .. j : r[k].of = r[i].of /\ r[k].dir = "close"
  BY DEF EndsIn
<1>2. k \in i .. m /\ k \in 1 .. n
  OBVIOUS
<1> QED BY <1>1, <1>2 DEF EndsIn

LEMMA OrderGrown ==
  ASSUME NEW r, NEW q, NEW n \in Nat, NEW e, NEW s \in Sessions, NEW f, NEW g,
         Grown(r, q, n, e, s, f, g), Ordered(r), Owned(r, f)
  PROVE  Ordered(q) /\ Owned(q, g)
<1>1. Len(r) = n /\ Len(q) = n + 1 /\ q[n + 1] = e /\ \A i \in 1 .. n : q[i] = r[i]
  BY DEF Grown
<1>2. f[s].st = "open" /\ e.of = s /\ e.ssl = f[s].ptr /\ e.ssl \in Ptrs
  BY DEF Grown
<1>3. ASSUME NEW i \in 1 .. n
      PROVE  /\ r[i].ssl \in Ptrs /\ r[i].of \in Sessions
             /\ \/ f[r[i].of].st = "open" /\ r[i].ssl = f[r[i].of].ptr /\ r[i].dir # "close"
                \/ f[r[i].of].st = "closed" /\ EndsIn(r, i, n)
  BY <1>1 DEF Owned
<1>4. ASSUME NEW i \in 1 .. n + 1, NEW j \in 1 .. n + 1, i < j
      PROVE  /\ q[i].of = q[j].of => q[i].dir # "close" /\ q[i].ssl = q[j].ssl
             /\ q[i].of # q[j].of /\ q[i].ssl = q[j].ssl => EndsIn(q, i, j - 1)
  <2>1. i \in 1 .. n /\ q[i] = r[i]
    BY <1>1, <1>4
  <2>2. CASE j = n + 1
    <3>1. q[j] = e
      BY <2>2, <1>1
    <3>2. r[i].of = s => r[i].dir # "close" /\ r[i].ssl = e.ssl
      BY <2>1, <1>2, <1>3
    <3>3. ASSUME r[i].of # s, r[i].ssl = e.ssl PROVE EndsIn(q, i, j - 1)
      <4>1. f[r[i].of].st # "open"
        BY <2>1, <3>3, <1>2, <1>3 DEF Grown
      <4>2. EndsIn(r, i, n)
        BY <4>1, <2>1, <1>3
      <4>3. n \in 0 .. n /\ n <= n /\ j - 1 = n
        BY <2>2
      <4> QED BY <4>2, <4>3, <2>1, <1>1, EndsGrown
    <3> QED BY <3>1, <3>2, <3>3, <2>1, <1>2
  <2>3. CASE j # n + 1
    <3>1. j \in 1 .. n /\ q[j] = r[j] /\ j - 1 \in 0 .. n /\ j - 1 \in Nat /\ j - 1 <= j - 1
      BY <2>3, <1>1
    <3>2. /\ r[i].of = r[j].of => r[i].dir # "close" /\ r[i].ssl = r[j].ssl
          /\ r[i].of # r[j].of /\ r[i].ssl = r[j].ssl => EndsIn(r, i, j - 1)
      BY <2>1, <3>1, <1>1, <1>4 DEF Ordered
    <3>3. EndsIn(r, i, j - 1) => EndsIn(q, i, j - 1)
      BY <2>1, <3>1, <1>1, EndsGrown
    <3> QED BY <3>1, <3>2, <3>3, <2>1
  <2> QED BY <2>2, <2>3
<1>5. ASSUME NEW i \in 1 .. n + 1
      PROVE  /\ q[i].ssl \in Ptrs /\ q[i].of \in Sessions
             /\ \/ g[q[i].of].st = "open" /\ q[i].ssl = g[q[i].of].ptr /\ q[i].dir # "close"
                \/ g[q[i].of].st = "closed" /\ EndsIn(q, i, n + 1)
  <2>1. CASE i = n + 1 /\ e.dir # "close"
    BY <2>1, <1>1, <1>2 DEF Grown
  <2>2. CASE i = n + 1 /\ e.dir = "close"
    <3>1. EndsIn(q, i, n + 1)
      BY <2>2, <1>1 DEF EndsIn
    <3> QED BY <3>1, <2>2, <1>1, <1>2 DEF Grown
  <2>3. CASE i \in 1 .. n /\ q[i].of # s
    <3>1. q[i] = r[i] /\ r[i].of \in Sessions \ {s}
      BY <2>3, <1>1, <1>3
    <3>2. n \in 0 .. n /\ n + 1 \in Nat /\ n <= n + 1
      OBVIOUS
    <3>3. EndsIn(r, i, n) => EndsIn(q, i, n + 1)
      BY <2>3, <3>2, <1>1, EndsGrown
    <3>4. g[r[i].of].st = f[r[i].of].st /\ g[r[i].of].ptr = f[r[i].of].ptr
      BY <3>1, <2>3, <1>3 DEF Grown
    <3> QED BY <3>1, <3>3, <3>4, <2>3, <1>3
  <2>4. CASE i \in 1 .. n /\ q[i].of = s
    <3>1. q[i] = r[i] /\ r[i].of = s
      BY <2>4, <1>1
    <3>2. r[i].ssl = f[s].ptr /\ r[i].dir # "close" /\ r[i].ssl \in Ptrs
      BY <2>4, <3>1, <1>2, <1>3
    <3>3. CASE e.dir = "close"
      <4>1. n + 1 \in i .. n + 1 /\ q[n + 1].of = q[i].of /\ q[n + 1].dir = "close"
        BY <3>1, <3>3, <2>4, <1>1, <1>2
      <4>2. EndsIn(q, i, n + 1)
        BY <4>1 DEF EndsIn
      <4> QED BY <4>2, <3>1, <3>2, <3>3 DEF Grown
    <3> QED BY <3>1, <3>2, <3>3 DEF Grown
  <2> QED BY <2>1, <2>2, <2>3, <2>4
<1> QED BY <1>1, <1>4, <1>5 DEF Ordered, Owned

LEMMA ReportedGrown ==
  ASSUME NEW r, NEW q, NEW n \in Nat, NEW e, NEW s \in Sessions, NEW f, NEW g, NEW M,
         NEW R, R \subseteq Sessions,
         Grown(r, q, n, e, s, f, g), ReportedOk(r, f, M, R)
  PROVE  ReportedOk(q, g, M, R)
<1>1. Len(r) = n /\ Len(q) = n + 1 /\ q[n + 1] = e /\ \A i \in 1 .. n : q[i] = r[i]
  BY DEF Grown
<1>2. f[s].st = "open" /\ e.of = s /\ e.ssl = f[s].ptr /\ e.ssl \in Ptrs
  BY DEF Grown
<1> SUFFICES ASSUME NEW c \in R
             PROVE  /\ \/ /\ g[c].st = "open" /\ g[c].ptr \in M
                          /\ \A i \in 1 .. n + 1 : Only(q, i, g[c].ptr, c)
                       \/ g[c].st = "closed"
                    /\ \A i \in 1 .. n + 1 : q[i].of = c =>
                         q[i].ssl \in M /\ \A j \in 1 .. i - 1 : Only(q, j, q[i].ssl, c)
  BY <1>1 DEF ReportedOk
<1>3. /\ \/ f[c].st = "open" /\ f[c].ptr \in M /\ \A i \in 1 .. n : Only(r, i, f[c].ptr, c)
         \/ f[c].st = "closed"
      /\ \A i \in 1 .. n : r[i].of = c =>
           r[i].ssl \in M /\ \A j \in 1 .. i - 1 : Only(r, j, r[i].ssl, c)
  BY <1>1 DEF ReportedOk
<1>4. \A i \in 1 .. n : \A p : Only(q, i, p, c) <=> Only(r, i, p, c)
  BY <1>1 DEF Only
<1>5. \/ g[c].st = "open" /\ g[c].ptr \in M /\ \A i \in 1 .. n + 1 : Only(q, i, g[c].ptr, c)
      \/ g[c].st = "closed"
  <2>1. CASE c = s
    <3>1. g[s].st # "closed" => Only(q, n + 1, g[s].ptr, s)
      BY <1>1, <1>2 DEF Grown, Only
    <3> QED BY <3>1, <2>1, <1>2, <1>3, <1>4 DEF Grown
  <2>2. CASE c # s
    <3>1. g[c].st = f[c].st /\ g[c].ptr = f[c].ptr
      BY <2>2, <1>3 DEF Grown
    <3>2. f[c].st = "open" => f[c].ptr # e.ssl
      BY <2>2, <1>2 DEF Grown
    <3>3. f[c].st = "open" => Only(q, n + 1, f[c].ptr, c)
      BY <3>2, <1>1 DEF Only
    <3>4. CASE f[c].st = "open"
      <4>1. PICK p : p = f[c].ptr
        OBVIOUS
      <4>2. \A i \in 1 .. n : Only(q, i, p, c)
        BY <4>1, <3>4, <1>3, <1>4
      <4>3. \A i \in 1 .. n + 1 : i \in 1 .. n \/ i = n + 1
        OBVIOUS
      <4>4. \A i \in 1 .. n + 1 : Only(q, i, p, c)
        BY <4>1, <4>2, <4>3, <3>3, <3>4
      <4> QED BY <4>1, <4>4, <3>1, <3>4, <1>3
    <3> QED BY <3>1, <3>4, <1>3
  <2> QED BY <2>1, <2>2
<1>6. ASSUME NEW i \in 1 .. n + 1, q[i].of = c
      PROVE  q[i].ssl \in M /\ \A j \in 1 .. i - 1 : Only(q, j, q[i].ssl, c)
  <2>1. \A j \in 1 .. i - 1 : j \in 1 .. n
    OBVIOUS
  <2>2. CASE i = n + 1
    <3>1. c = s /\ q[i] = e
      BY <2>2, <1>1, <1>2, <1>6
    <3> QED BY <3>1, <2>1, <1>2, <1>3, <1>4
  <2>3. CASE i # n + 1
    <3>1. i \in 1 .. n /\ q[i] = r[i]
      BY <2>3, <1>1
    <3> QED BY <3>1, <2>1, <1>3, <1>4, <1>6
  <2> QED BY <2>2, <2>3
<1> QED BY <1>5, <1>6

LEMMA ReportedShifted ==
  ASSUME NEW r, NEW q, NEW n \in Nat, NEW f, NEW M, NEW N, NEW R,
         Shifted(r, q, n), ReportedOk(r, f, M, R),
         \A m \in M : m \in N \/ (m = r[1].ssl /\ r[1].dir = "close")
  PROVE  ReportedOk(q, f, N, R)
<1>1. Len(r) = n + 1 /\ Len(q) = n /\ \A i \in 1 .. n : i + 1 \in 1 .. n + 1 /\ q[i] = r[i + 1]
  BY ShiftOne DEF Shifted
<1> SUFFICES ASSUME NEW c \in R
             PROVE  /\ \/ /\ f[c].st = "open" /\ f[c].ptr \in N
                          /\ \A i \in 1 .. n : Only(q, i, f[c].ptr, c)
                       \/ f[c].st = "closed"
                    /\ \A i \in 1 .. n : q[i].of = c =>
                         q[i].ssl \in N /\ \A j \in 1 .. i - 1 : Only(q, j, q[i].ssl, c)
  BY <1>1 DEF ReportedOk
<1>2. /\ \/ /\ f[c].st = "open" /\ f[c].ptr \in M
            /\ \A i \in 1 .. n + 1 : Only(r, i, f[c].ptr, c)
         \/ f[c].st = "closed"
      /\ \A i \in 1 .. n + 1 : r[i].of = c =>
           r[i].ssl \in M /\ \A j \in 1 .. i - 1 : Only(r, j, r[i].ssl, c)
  BY <1>1 DEF ReportedOk
<1>3. \A i \in 1 .. n : \A p : Only(q, i, p, c) <=> Only(r, i + 1, p, c)
  BY <1>1 DEF Only
<1>4. 1 \in 1 .. n + 1
  OBVIOUS
<1>5. \A p : Only(r, 1, p, c) /\ p \in M => p \in N
  BY DEF Only
<1>6. ASSUME f[c].st # "closed"
      PROVE  f[c].ptr \in N /\ \A i \in 1 .. n : Only(q, i, f[c].ptr, c)
  <2>1. PICK p : p = f[c].ptr
    OBVIOUS
  <2>2. p \in M /\ \A i \in 1 .. n + 1 : Only(r, i, p, c)
    BY <1>2, <1>6, <2>1
  <2> QED BY <2>1, <2>2, <1>1, <1>3, <1>4, <1>5
<1>7. ASSUME NEW i \in 1 .. n, q[i].of = c
      PROVE  q[i].ssl \in N /\ \A j \in 1 .. i - 1 : Only(q, j, q[i].ssl, c)
  <2>1. PICK a \in 1 .. n + 1 : a = i + 1 /\ q[i] = r[a]
    BY <1>1
  <2> PICK p : p = r[a].ssl
    OBVIOUS
  <2>2. p \in M /\ \A j \in 1 .. a - 1 : Only(r, j, p, c)
    BY <1>2, <1>7, <2>1
  <2>3. 1 \in 1 .. a - 1 /\ \A j \in 1 .. i - 1 : j + 1 \in 1 .. a - 1 /\ j \in 1 .. n
    BY <2>1
  <2> QED BY <2>1, <2>2, <2>3, <1>3, <1>5
<1> QED BY <1>2, <1>6, <1>7

\* The client of the event at the head is reported.
LEMMA ReportedNow ==
  ASSUME NEW r, NEW q, NEW n \in Nat, NEW f, NEW N,
         Shifted(r, q, n), Ordered(r), Owned(r, f), r[1].dir # "close", r[1].ssl \in N
  PROVE  ReportedOk(q, f, N, {r[1].of})
<1>1. Len(r) = n + 1 /\ Len(q) = n /\ \A i \in 1 .. n : i + 1 \in 1 .. n + 1 /\ q[i] = r[i + 1]
  BY ShiftOne DEF Shifted
<1>2. PICK c, p : c = r[1].of /\ p = r[1].ssl
  OBVIOUS
<1>3. 1 \in 1 .. n + 1
  OBVIOUS
<1>4. \/ f[c].st = "open" /\ p = f[c].ptr
      \/ f[c].st = "closed"
  BY <1>1, <1>2, <1>3 DEF Owned
<1>5. ASSUME NEW j \in 2 .. n + 1, r[j].ssl = p, r[j].of # c
      PROVE  \E k \in 2 .. j - 1 : r[k].of = c /\ r[k].dir = "close"
  <2>1. EndsIn(r, 1, j - 1)
    BY <1>1, <1>2, <1>3, <1>5 DEF Ordered
  <2>2. PICK k \in 1 .. j - 1 : r[k].of = c /\ r[k].dir = "close"
    BY <2>1, <1>2 DEF EndsIn
  <2>3. k # 1
    BY <2>2
  <2> QED BY <2>2, <2>3
<1>6. ASSUME NEW i \in 2 .. n + 1, r[i].of = c
      PROVE  r[i].ssl = p /\ \A j \in 2 .. i - 1 : Only(r, j, p, c)
  <2>1. r[i].ssl = p
    BY <1>1, <1>2, <1>3, <1>6 DEF Ordered
  <2>2. ASSUME NEW j \in 2 .. i - 1, r[j].of = c PROVE r[j].dir # "close"
    BY <2>2, <1>1, <1>6 DEF Ordered
  <2>3. ASSUME NEW j \in 2 .. i - 1, r[j].ssl = p, r[j].of # c PROVE FALSE
    <3>1. PICK k \in 2 .. j - 1 : r[k].of = c /\ r[k].dir = "close"
      BY <2>3, <1>5
    <3> QED BY <3>1, <2>2
  <2> QED BY <2>1, <2>2, <2>3 DEF Only
<1>7. ASSUME f[c].st = "open", NEW j \in 2 .. n + 1 PROVE Only(r, j, p, c)
  <2>1. ASSUME NEW k \in 2 .. n + 1, r[k].of = c PROVE r[k].dir # "close"
    BY <2>1, <1>1, <1>7 DEF Owned
  <2>2. ASSUME r[j].ssl = p, r[j].of # c PROVE FALSE
    <3>1. PICK k \in 2 .. j - 1 : r[k].of = c /\ r[k].dir = "close"
      BY <2>2, <1>5
    <3> QED BY <3>1, <2>1
  <2> QED BY <2>1, <2>2 DEF Only
<1>8. \A i \in 1 .. n : \A x : Only(q, i, x, c) <=> Only(r, i + 1, x, c)
  BY <1>1 DEF Only
<1>9. ASSUME NEW i \in 1 .. n, q[i].of = c
      PROVE  q[i].ssl = p /\ \A j \in 1 .. i - 1 : Only(q, j, p, c)
  <2>1. PICK a \in 2 .. n + 1 : a = i + 1 /\ q[i] = r[a]
    BY <1>1
  <2>2. r[a].ssl = p /\ \A j \in 2 .. a - 1 : Only(r, j, p, c)
    BY <1>6, <1>9, <2>1
  <2>3. \A j \in 1 .. i - 1 : j + 1 \in 2 .. a - 1 /\ j \in 1 .. n
    BY <2>1
  <2> QED BY <2>1, <2>2, <2>3, <1>8
<1>10. ASSUME f[c].st = "open", NEW i \in 1 .. n PROVE Only(q, i, p, c)
  <2>1. i + 1 \in 2 .. n + 1
    OBVIOUS
  <2> QED BY <2>1, <1>7, <1>8, <1>10
<1> QED BY <1>1, <1>2, <1>4, <1>9, <1>10 DEF ReportedOk

-----------------------------------------------------------------------------
(* Reported once.                                                           *)

Distinct(log) == \A i, j \in 1 .. Len(log) : log[i] = log[j] => i = j
MarkedPtrs == {p \in Ptrs : Marked(p)}

Reporting ==
  /\ connections = [p \in Ptrs |-> connections[p]]
  /\ \A p \in Ptrs : connections[p] # None => KeptOk(connections[p])
  /\ Ordered(ring) /\ Owned(ring, sess)
  /\ poisonLogs \in Seq(Sessions) /\ Distinct(poisonLogs)
  /\ ReportedOk(ring, sess, MarkedPtrs, SetOf(poisonLogs))

\* The ring buffer has room, the kernel has evicted nothing, and no two open
\* sessions (of two workers) have one SSL address.
Unshared ==
  \A s, t \in Sessions :
    sess[s].st = "open" /\ sess[t].st = "open" /\ sess[s].ptr = sess[t].ptr => s = t

Orderly == HasRoom /\ evictions = 0 /\ Unshared

\* One worker has an SSL address open for one session at a time.
LEMMA UnsharedByOneWorker ==
  ASSUME IInv, \A v, w \in Workers : v = w
  PROVE  Unshared
<1> SUFFICES ASSUME NEW s \in Sessions, NEW t \in Sessions, sess[s].st = "open",
                    sess[t].st = "open", sess[s].ptr = sess[t].ptr
             PROVE  s = t
  BY DEF Unshared
<1>1. Live(s) /\ Live(t)
  BY DEF Live
<1>2. sess[s].w = sess[t].w
  BY <1>1 DEF IInv, Exclusive, Placed
<1>3. Clash(s, t)
  BY <1>1, <1>2 DEF Clash
<1> QED BY <1>3 DEF IInv, Exclusive

LEMMA HookReporting ==
  ASSUME IInv, Reporting, Orderly, Probes
  PROVE  Reporting'
<1>1. connections' = connections /\ poisonLogs' = poisonLogs
  BY DEF Probes, daemonVars
<1>2. PICK r, f, M : r = ring /\ f = sess /\ M = MarkedPtrs
  OBVIOUS
<1>3. PICK q, g : q = ring' /\ g = sess'
  OBVIOUS
<1>4. /\ MarkedPtrs' = M /\ SetOf(poisonLogs)' = SetOf(poisonLogs)
      /\ SetOf(poisonLogs) \subseteq Sessions
  BY <1>1, <1>2 DEF MarkedPtrs, Marked, SetOf, Reporting
<1>5. Ordered(r) /\ Owned(r, f) /\ ReportedOk(r, f, M, SetOf(poisonLogs))
  BY <1>2 DEF Reporting
<1>6. SUFFICES Ordered(q) /\ Owned(q, g) /\ ReportedOk(q, g, M, SetOf(poisonLogs))
  BY <1>1, <1>3, <1>4 DEF Reporting, KeptOk
<1>7. CASE Quiet
  <2>1. /\ q = r
        /\ \A t \in Sessions :
             f[t].st \in {"open", "closed"} => g[t].st = f[t].st /\ g[t].ptr = f[t].ptr
    BY <1>2, <1>3, <1>7 DEF Quiet, Stays
  <2>2. Owned(q, g)
    BY <2>1, <1>5 DEF Owned
  <2>3. ReportedOk(q, g, M, SetOf(poisonLogs))
    BY <2>1, <1>4, <1>5 DEF ReportedOk
  <2> QED BY <2>1, <2>2, <2>3, <1>5
<1>8. ASSUME NEW s \in Sessions, NEW e \in EventType, NEW n \in Nat, Hooked(s, e, n)
      PROVE  Ordered(q) /\ Owned(q, g) /\ ReportedOk(q, g, M, SetOf(poisonLogs))
  <2>1. /\ sess[s].st = "open" /\ e.of = s /\ e.ssl = sess[s].ptr
        /\ n = Len(ring) /\ Len(ring') = n + 1 /\ ring'[n + 1] = e
        /\ \A i \in 1 .. n : ring'[i] = ring[i]
        /\ \A t \in Sessions \ {s} : Stays(t)
        /\ \/ e.dir # "close" /\ Stays(s)
           \/ e.dir = "close" /\ sess'[s].st = "closed"
    BY <1>8 DEF Hooked, Sent
  <2>2. sess[s].ptr \in Ptrs
    BY <2>1 DEF IInv, Exclusive, Placed
  <2>3. Grown(r, q, n, e, s, f, g)
    BY <2>1, <2>2, <1>2, <1>3 DEF Grown, Stays, Orderly, Unshared
  <2> QED BY <2>3, <1>4, <1>5, OrderGrown, ReportedGrown
<1>9. CASE \E w \in Workers : Worker(w)
  BY <1>7, <1>8, <1>9, WorkerEffect DEF Orderly
<1>10. CASE Evict
  <2>1. Quiet
    BY <1>10 DEF Evict, Quiet, Stays
  <2> QED BY <2>1, <1>7
<1> QED BY <1>9, <1>10 DEF Probes, HookNext

LEMMA LogGrown ==
  ASSUME NEW log \in Seq(Sessions), Distinct(log), NEW c \in Sessions, c \notin SetOf(log)
  PROVE  /\ Append(log, c) \in Seq(Sessions) /\ Distinct(Append(log, c))
         /\ SetOf(Append(log, c)) = SetOf(log) \cup {c}
<1>1. PICK new : new = Append(log, c)
  OBVIOUS
<1>2. PICK n \in Nat : n = Len(log)
  OBVIOUS
<1>3. /\ new \in Seq(Sessions) /\ Len(new) = n + 1 /\ new[n + 1] = c
      /\ \A i \in 1 .. n : new[i] = log[i]
  BY <1>1, <1>2
<1>4. \A i \in 1 .. n + 1 : i \in 1 .. n \/ i = n + 1
  OBVIOUS
<1>5. \A i \in 1 .. n : log[i] # c
  BY <1>2 DEF SetOf
<1>6. Distinct(new)
  BY <1>2, <1>3, <1>4, <1>5 DEF Distinct
<1>7. \A i \in 1 .. n : i \in 1 .. n + 1
  OBVIOUS
<1>8. SetOf(new) = SetOf(log) \cup {c}
  <2>1. SetOf(new) \subseteq SetOf(log) \cup {c}
    BY <1>2, <1>3, <1>4 DEF SetOf
  <2>2. n + 1 \in 1 .. n + 1
    OBVIOUS
  <2>3. SetOf(log) \cup {c} \subseteq SetOf(new)
    BY <2>2, <1>2, <1>3, <1>7 DEF SetOf
  <2> QED BY <2>1, <2>3
<1> QED BY <1>1, <1>3, <1>6, <1>8

LEMMA TurnReporting ==
  ASSUME NoneIsNoConnection, Upstreams = {}, IInv, Reporting, Orderly, Daemon
  PROVE  Reporting'
<1>1. PICK e \in EventType : e = Head(ring) /\ TurnLogs(e)
  BY TurnReports DEF Reporting
<1>2. PICK d \in EventType, n \in Nat : Turned(d, n)
  BY TurnEffect DEF Reporting
<1>3. /\ Len(ring) = n + 1 /\ Len(ring') = n /\ ring[1] = d
      /\ \A i \in 1 .. n : ring'[i] = ring[i + 1]
      /\ sess' = sess
      /\ connections' = [p \in Ptrs |-> connections'[p]]
      /\ \A p \in Ptrs \ {d.ssl} : connections'[p] = connections[p]
      /\ d.ssl \in Ptrs /\ d.dir = "close" => connections'[d.ssl] = None
  BY <1>2 DEF Turned
<1>4. e = d /\ 1 \in 1 .. n + 1
  BY <1>1, <1>3
<1>5. PICK r, f, M, R : r = ring /\ f = sess /\ M = MarkedPtrs /\ R = SetOf(poisonLogs)
  OBVIOUS
<1>6. PICK q, N : q = ring' /\ N = MarkedPtrs'
  OBVIOUS
<1>7. Shifted(r, q, n) /\ r[1] = e /\ Len(r) = n + 1
  BY <1>3, <1>4, <1>5, <1>6 DEF Shifted
<1>8. Ordered(r) /\ Owned(r, f) /\ ReportedOk(r, f, M, R)
  BY <1>5 DEF Reporting
<1>9. Ordered(q) /\ Owned(q, f)
  BY <1>7, <1>8, OrderShifted
<1>10. e.ssl \in Ptrs
  BY <1>4, <1>7, <1>8 DEF Owned
<1>11. \A p \in Ptrs : connections'[p] # None => KeptOk(connections'[p])
  BY <1>1, <1>3, <1>4, <1>10 DEF Reporting, TurnLogs
<1>12. \A m \in M : \/ m \in N
                    \/ m = r[1].ssl /\ r[1].dir = "close"
                    \/ m = e.ssl /\ e.dir # "close"
  BY <1>3, <1>4, <1>5, <1>6, <1>7 DEF MarkedPtrs, Marked
<1>13. CASE poisonLogs' = poisonLogs /\ (e.ssl \in M /\ e.dir # "close" => e.ssl \in N)
  <2>1. ReportedOk(q, f, N, R)
    BY <1>7, <1>8, <1>12, <1>13, ReportedShifted
  <2>2. SetOf(poisonLogs)' = R
    BY <1>5, <1>13 DEF SetOf
  <2> QED BY <2>1, <2>2, <1>3, <1>5, <1>6, <1>9, <1>11, <1>13 DEF Reporting, KeptOk
<1>14. CASE /\ e.dir # "close" /\ poisonLogs' = Append(poisonLogs, e.conn)
             /\ e.ssl \in N /\ e.ssl \notin M
  <2>1. e.conn = e.of /\ e.of \in Sessions
    <3>1. e \in SetOf(ring) /\ e.of \in Clients /\ e.of \in Sessions
      BY <1>3, <1>4, ClientsAreSessions DEF SetOf, EventType, Sessions
    <3>2. Attributed(e)
      BY <3>1 DEF IInv, Chain, Orderly
    <3> QED BY <3>1, <3>2, <1>14 DEF Attributed
  <2>2. e.of \notin R
    BY <1>4, <1>7, <1>8, <1>14 DEF ReportedOk
  <2>3. ReportedOk(q, f, N, R)
    BY <1>7, <1>8, <1>12, <1>14, ReportedShifted
  <2>4. ReportedOk(q, f, N, {e.of})
    BY <1>7, <1>8, <1>14, ReportedNow
  <2>5. ReportedOk(q, f, N, R \cup {e.of})
    BY <2>3, <2>4 DEF ReportedOk
  <2>6. /\ poisonLogs' \in Seq(Sessions) /\ Distinct(poisonLogs')
        /\ SetOf(poisonLogs') = R \cup {e.of}
    BY <2>1, <2>2, <1>5, <1>14, LogGrown DEF Reporting
  <2> QED BY <2>5, <2>6, <1>3, <1>5, <1>6, <1>9, <1>11 DEF Reporting, KeptOk
<1>15. \/ poisonLogs' = poisonLogs /\ (e.ssl \in M /\ e.dir # "close" => e.ssl \in N)
       \/ /\ e.dir # "close" /\ poisonLogs' = Append(poisonLogs, e.conn)
          /\ e.ssl \in N /\ e.ssl \notin M
  BY <1>1, <1>5, <1>6, <1>10 DEF TurnLogs, MarkedPtrs, Marked
<1> QED BY <1>13, <1>14, <1>15

\* logPoison (internal/sniffer/sniffer.go:99) reports a poisoned connection, and
\* reports each client once, when nginx talks plaintext to its upstreams, no two
\* workers have one SSL address open, and nothing was evicted or lost.
THEOREM PoisonIsReportedOnce ==
  ASSUME NoneIsNoConnection, Upstreams = {}
  PROVE  Spec /\ []Orderly => []PoisonReportedOnce
<1>1. CaptureInit => Reporting
  <2> SUFFICES ASSUME CaptureInit PROVE Reporting
    OBVIOUS
  <2>1. /\ ring = <<>> /\ Len(ring) = 0 /\ connections = [p \in Ptrs |-> None]
        /\ poisonLogs = <<>> /\ Len(poisonLogs) = 0 /\ SetOf(poisonLogs) = {}
    BY DEF CaptureInit, Init, User!InitSniffer, SetOf
  <2> QED BY <2>1 DEF Reporting, Ordered, Owned, Distinct, ReportedOk
<1>2. IInv /\ Reporting /\ Orderly /\ [Next]_vars => Reporting'
  <2> SUFFICES ASSUME IInv, Reporting, Orderly, [Next]_vars PROVE Reporting'
    OBVIOUS
  <2>1. CASE UNCHANGED vars
    <3>1. ring' = ring /\ sess' = sess /\ connections' = connections /\ poisonLogs' = poisonLogs
      BY <2>1 DEF vars, hookVars, daemonVars
    <3>2. MarkedPtrs' = MarkedPtrs
      BY <3>1 DEF MarkedPtrs, Marked
    <3> QED BY <3>1, <3>2 DEF Reporting, KeptOk, SetOf
  <2> QED BY <2>1, HookReporting, TurnReporting DEF Next
<1>3. Reporting => PoisonReportedOnce
  BY DEF Reporting, KeptOk, Distinct, PoisonReportedOnce
<1> QED BY <1>1, <1>2, <1>3, CaptureRefinesHook, HookInvariant, PTL DEF Spec

-----------------------------------------------------------------------------
(* Reassembly: what ParseRequest and ParseResponse take from a buffer that  *)
(* begins where a message does. Ends is a recursive function; that it is    *)
(* what its definition says, and what it computes, is shown by the least    *)
(* number of which it would not be so.                                      *)


\* Among natural numbers one is the least.
LEMMA Least ==
  ASSUME NEW T, T \subseteq Nat, T # {}
  PROVE  \E m \in T : \A k \in T : m <= k
<1>1. PICK R : R = OpToRel(<, Nat)
  OBVIOUS
<1>2. IsWellFoundedOn(R, Nat)
  BY <1>1, NatLessThanWellFounded
<1>3. PICK x \in T : \A y \in T : ~ (<<y, x>> \in R)
  BY <1>2, WFMin
<1>4. ASSUME NEW k \in T PROVE x <= k
  <2>1. k \in Nat /\ x \in Nat
    OBVIOUS
  <2>2. ASSUME k < x PROVE <<k, x>> \in R
    <3>1. <<k, x>> \in Nat \X Nat /\ <<k, x>>[1] = k /\ <<k, x>>[2] = x
      BY <2>1
    <3> QED BY <3>1, <2>2, <1>1 DEF OpToRel
  <2> QED BY <2>1, <2>2, <1>3
<1> QED BY <1>4

\* What holds of 0 and of the successor of whatever it holds of holds up to any bound.
LEMMA UpTo ==
  ASSUME NEW n \in Nat, NEW S, 0 \in S, \A k \in 1 .. n : k - 1 \in S => k \in S
  PROVE  0 .. n \subseteq S
<1>a. PICK T : T = (0 .. n) \ S
  OBVIOUS
<1>1. ASSUME T # {} PROVE FALSE
  <2>0. T \subseteq Nat
    BY <1>a
  <2>1. PICK m \in T : \A k \in T : m <= k
    BY <2>0, <1>1, Least
  <2>2. m \in 1 .. n /\ m \notin S
    BY <1>a, <2>1
  <2>3. m - 1 \in 0 .. n /\ m - 1 \notin T
    BY <2>1, <2>2, <1>a
  <2> QED BY <2>2, <2>3, <1>a
<1> QED BY <1>a, <1>1

\* Complete and the recursion of Ends.
Ready(buf, at) ==
  /\ at < Len(buf)
  /\ buf[at + 1].i = 1
  /\ at + buf[at + 1].need <= Len(buf)

Step(buf, end, k) ==
  IF k = 0 THEN 0
  ELSE IF Ready(buf, end[k - 1]) THEN end[k - 1] + buf[end[k - 1] + 1].need
  ELSE end[k - 1]

LEMMA EndsExist ==
  ASSUME NEW buf, NEW n \in Nat
  PROVE  \E end : end = [k \in 0 .. n |-> Step(buf, end, k)]
<1>a. PICK S : S = {m \in 0 .. n : \E end : end = [k \in 0 .. m |-> Step(buf, end, k)]}
  OBVIOUS
<1>1. 0 \in S
  <2>1. PICK end : end = [k \in 0 .. 0 |-> 0]
    OBVIOUS
  <2>2. end = [k \in 0 .. 0 |-> Step(buf, end, k)]
    BY <2>1 DEF Step
  <2> QED BY <2>2, <1>a
<1>2. ASSUME NEW m \in 1 .. n, m - 1 \in S PROVE m \in S
  <2>1. PICK end : end = [k \in 0 .. m - 1 |-> Step(buf, end, k)]
    BY <1>a, <1>2
  <2>2. PICK new : new = [k \in 0 .. m |-> IF k = m THEN Step(buf, end, m) ELSE end[k]]
    OBVIOUS
  <2>3. ASSUME NEW k \in 0 .. m PROVE Step(buf, new, k) = Step(buf, end, k)
    <3>1. k # 0 => new[k - 1] = end[k - 1]
      BY <2>2
    <3> QED BY <3>1 DEF Step
  <2>4. ASSUME NEW k \in 0 .. m PROVE new[k] = Step(buf, end, k)
    BY <2>1, <2>2
  <2>5. new = [k \in 0 .. m |-> Step(buf, new, k)]
    BY <2>2, <2>3, <2>4
  <2> QED BY <2>5, <1>a
<1>3. n \in S
  BY <1>1, <1>2, UpTo
<1> QED BY <1>3, <1>a

LEMMA EndsUnfold ==
  ASSUME NEW buf, Len(buf) \in Nat
  PROVE  User!Ends(buf) = [k \in 0 .. Len(buf) |-> Step(buf, User!Ends(buf), k)]
<1>1. PICK end : end = [k \in 0 .. Len(buf) |-> Step(buf, end, k)]
  BY EndsExist
<1>2. User!Ends(buf) = CHOOSE f : f = [k \in 0 .. Len(buf) |-> Step(buf, f, k)]
  BY DEF User!Ends, User!Complete, Ready, Step
<1> QED BY <1>1, <1>2

\* Message boundaries of a plaintext, and the message that begins at one.
Begin(P, x) == x \in 0 .. Len(P) - 1 /\ P[x + 1].i = 1
Boundary(P, x) == x = Len(P) \/ Begin(P, x)
End(P, x) == x + P[x + 1].need
MsgAt(P, x) == SubSeq(P, x + 1, End(P, x))
\* Where messages begin that lie between b and a.
Within(P, b, a) == {x \in b .. a : Begin(P, x) /\ End(P, x) <= a}

LEMMA UnitPlace ==
  ASSUME NEW P, WellFormed(P), NEW j \in 1 .. Len(P)
  PROVE  /\ Len(P) \in Nat
         /\ P[j].need \in Nat /\ P[j].i \in 1 .. P[j].need
         /\ Before(P, j) \in 0 .. Len(P) - P[j].need
         /\ Before(P, j) = j - P[j].i
         /\ j \in Before(P, j) + 1 .. Before(P, j) + P[j].need
         /\ P[j].i = j - Before(P, j) 
<1>1. Len(P) \in Nat
  BY DEF WellFormed
<1>2. /\ P[j].need \in Nat /\ P[j].i \in 1 .. P[j].need
      /\ Before(P, j) \in 0 .. Len(P) - P[j].need
  BY DEF WellFormed
<1> QED BY <1>1, <1>2 DEF Before

\* A unit in the span of a message is of this message.
LEMMA SameMessage ==
  ASSUME NEW P, WellFormed(P), NEW j \in 1 .. Len(P),
         NEW k \in Before(P, j) + 1 .. Before(P, j) + P[j].need
  PROVE  /\ k \in 1 .. Len(P) /\ P[k].m = P[j].m
         /\ Before(P, k) = Before(P, j) /\ P[k].need = P[j].need
<1>1. k \in 1 .. Len(P)
  BY UnitPlace
<1> QED BY <1>1 DEF WellFormed

LEMMA BeginFacts ==
  ASSUME NEW P, WellFormed(P), NEW x, Begin(P, x)
  PROVE  /\ Len(P) \in Nat /\ x \in 0 .. Len(P) - 1 /\ x + 1 \in 1 .. Len(P)
         /\ Before(P, x + 1) = x /\ P[x + 1].need \in Nat \ {0}
         /\ End(P, x) \in x + 1 .. Len(P) /\ End(P, x) = x + P[x + 1].need
<1>1. Len(P) \in Nat
  BY DEF WellFormed
<1>2. x \in 0 .. Len(P) - 1 /\ P[x + 1].i = 1
  BY DEF Begin
<1>3. x + 1 \in 1 .. Len(P)
  BY <1>1, <1>2
<1>4. /\ P[x + 1].need \in Nat /\ P[x + 1].i \in 1 .. P[x + 1].need
      /\ Before(P, x + 1) \in 0 .. Len(P) - P[x + 1].need
      /\ Before(P, x + 1) = (x + 1) - P[x + 1].i
  BY <1>3, UnitPlace
<1>5. Before(P, x + 1) = x
  BY <1>2, <1>4, <1>1
<1> QED BY <1>1, <1>2, <1>3, <1>4, <1>5 DEF End

\* Where a message ends the next begins, and no message reaches over a boundary.
LEMMA EndIsBoundary ==
  ASSUME NEW P, WellFormed(P), NEW x, Begin(P, x)
  PROVE  Boundary(P, End(P, x))
<1> PICK y : y = End(P, x)
  OBVIOUS
<1>1. /\ Len(P) \in Nat /\ x \in 0 .. Len(P) - 1 /\ x + 1 \in 1 .. Len(P)
      /\ Before(P, x + 1) = x /\ P[x + 1].need \in Nat \ {0}
      /\ y \in x + 1 .. Len(P) /\ y = x + P[x + 1].need
  BY BeginFacts
<1>2. ASSUME y # Len(P) PROVE Begin(P, y)
  <2>1. y \in 1 .. Len(P) /\ y + 1 \in 1 .. Len(P)
    BY <1>1, <1>2
  <2>2. Before(P, y) = x /\ P[y].need = P[x + 1].need
    BY <1>1, SameMessage
  <2> PICK j \in 1 .. Len(P) : j = y + 1
    BY <2>1
  <2>3. /\ j \in Before(P, j) + 1 .. Before(P, j) + P[j].need
        /\ P[j].need \in Nat /\ Before(P, j) \in Nat
        /\ P[j].i = j - Before(P, j)
    <3>1. /\ P[j].need \in Nat /\ Before(P, j) \in 0 .. Len(P) - P[j].need
          /\ j \in Before(P, j) + 1 .. Before(P, j) + P[j].need
          /\ P[j].i = j - Before(P, j)
      BY UnitPlace
    <3> QED BY <3>1, <1>1
  <2>4. ASSUME Before(P, j) # y PROVE FALSE
    <3>1. y \in Before(P, j) + 1 .. Before(P, j) + P[j].need
      BY <2>3, <2>4, <2>1
    <3>2. Before(P, y) = Before(P, j) /\ P[y].need = P[j].need
      BY <3>1, SameMessage
    <3> QED BY <3>2, <2>2, <2>3, <1>1
  <2>5. P[y + 1].i = 1
    BY <2>3, <2>4, <2>1
  <2> QED BY <2>1, <2>5, <1>1, <1>2 DEF Begin
<1> QED BY <1>2 DEF Boundary

LEMMA NoneReachesOver ==
  ASSUME NEW P, WellFormed(P), NEW x, Begin(P, x), NEW y \in Nat, Boundary(P, y), x < y
  PROVE  End(P, x) <= y
<1>1. /\ Len(P) \in Nat /\ x \in 0 .. Len(P) - 1 /\ x + 1 \in 1 .. Len(P)
      /\ Before(P, x + 1) = x /\ P[x + 1].need \in Nat \ {0}
      /\ End(P, x) \in x + 1 .. Len(P) /\ End(P, x) = x + P[x + 1].need
  BY BeginFacts
<1>2. CASE y = Len(P)
  BY <1>1, <1>2
<1>3. ASSUME Begin(P, y), y < End(P, x) PROVE FALSE
  <2>1. y + 1 \in Before(P, x + 1) + 1 .. Before(P, x + 1) + P[x + 1].need
    BY <1>1, <1>3
  <2>2. Before(P, y + 1) = x
    BY <2>1, <1>1, SameMessage
  <2>3. Before(P, y + 1) = y
    BY <1>3, BeginFacts
  <2> QED BY <2>2, <2>3
<1>4. End(P, x) \in Int /\ y \in Int
  BY <1>1
<1> QED BY <1>2, <1>3, <1>4 DEF Boundary

\* A piece of a plaintext.
LEMMA Piece ==
  ASSUME NEW P, WellFormed(P), NEW b \in Nat, NEW a \in Nat, b <= a, a <= Len(P)
  PROVE  /\ Len(SubSeq(P, b + 1, a)) = a - b
         /\ \A i \in 1 .. a - b : SubSeq(P, b + 1, a)[i] = P[b + i]
         /\ \A x, y \in 0 .. a - b :
              SubSeq(SubSeq(P, b + 1, a), x + 1, y) = SubSeq(P, b + x + 1, b + y)
<1>1. P \in Seq(SetOf(P)) /\ Len(P) \in Nat
  BY DEF WellFormed
<1>2. /\ Len(SubSeq(P, b + 1, a)) = a - b
      /\ \A i \in 1 .. a - b : SubSeq(P, b + 1, a)[i] = P[b + i]
  BY <1>1
<1>3. \A x, y \in 0 .. a - b : SubSeq(SubSeq(P, b + 1, a), x + 1, y) = SubSeq(P, b + x + 1, b + y)
  BY <1>1
<1> QED BY <1>2, <1>3

LEMMA Joined ==
  ASSUME NEW P, WellFormed(P), NEW b \in Nat, NEW a \in Nat, NEW c \in Nat,
         b <= a, a <= c, c <= Len(P)
  PROVE  SubSeq(P, b + 1, a) \o SubSeq(P, a + 1, c) = SubSeq(P, b + 1, c)
<1>1. P \in Seq(SetOf(P)) /\ Len(P) \in Nat
  BY DEF WellFormed
<1> QED BY <1>1

\* buf is what lies between a boundary b and a.
Cut(P, b, a, buf) ==
  /\ WellFormed(P) /\ b <= a /\ a <= Len(P) /\ Boundary(P, b)
  /\ buf = SubSeq(P, b + 1, a)

LEMMA CutFacts ==
  ASSUME NEW P, NEW b \in Nat, NEW a \in Nat, NEW buf, Cut(P, b, a, buf)
  PROVE  /\ WellFormed(P) /\ Len(P) \in Nat /\ b <= a /\ a <= Len(P) /\ Boundary(P, b)
         /\ a - b \in Nat /\ Len(buf) = a - b
<1>1. WellFormed(P) /\ Len(P) \in Nat /\ b <= a /\ a <= Len(P)
  BY DEF Cut, WellFormed
<1> QED BY <1>1, Piece DEF Cut

LEMMA CutUnits ==
  ASSUME NEW P, NEW b \in Nat, NEW a \in Nat, NEW buf, Cut(P, b, a, buf), NEW i \in 1 .. a - b
  PROVE  buf[i] = P[b + i]
<1>1. WellFormed(P) /\ Len(P) \in Nat /\ b <= a /\ a <= Len(P)
  BY DEF Cut, WellFormed
<1> QED BY <1>1, Piece DEF Cut

\* A message at place x of buf is complete when its end is not after a.
Completed(P, b, a, buf, x, y) ==
  /\ Ready(buf, x) => Begin(P, y) /\ End(P, y) <= a /\ x + buf[x + 1].need = End(P, y) - b
  /\ y < a /\ End(P, y) <= a => Ready(buf, x)

LEMMA CompleteIs ==
  ASSUME NEW P, NEW b \in Nat, NEW a \in Nat, NEW buf, Cut(P, b, a, buf),
         NEW x \in 0 .. a - b, NEW y, y = b + x, Boundary(P, y)
  PROVE  Completed(P, b, a, buf, x, y)
<1>1. /\ WellFormed(P) /\ Len(P) \in Nat /\ b <= a /\ a <= Len(P)
      /\ a - b \in Nat /\ Len(buf) = a - b
  BY CutFacts
<1>3. CASE x = a - b
  <2>1. ~Ready(buf, x)
    BY <1>1, <1>3 DEF Ready
  <2> QED BY <2>1, <1>1, <1>3 DEF Completed
<1>4. CASE x # a - b
  <2>1. x + 1 \in 1 .. a - b /\ y < a /\ b + (x + 1) = y + 1
    BY <1>1, <1>4
  <2>2. Begin(P, y)
    BY <2>1, <1>1 DEF Boundary
  <2>3. buf[x + 1] = P[y + 1]
    <3>1. PICK i \in 1 .. a - b : i = x + 1
      BY <2>1
    <3>2. buf[i] = P[b + i]
      BY CutUnits
    <3> QED BY <2>1, <3>1, <3>2
  <2>4. P[y + 1].i = 1
    BY <2>2 DEF Begin
  <2> PICK need \in Nat : need = P[y + 1].need
    BY <2>2, <1>1, BeginFacts
  <2>6. End(P, y) = y + need
    BY DEF End
  <2>7. Ready(buf, x) <=> x + need <= a - b
    BY <2>1, <2>3, <2>4, <1>1 DEF Ready
  <2> QED BY <2>1, <2>2, <2>3, <2>6, <2>7, <1>1, SMTT(20) DEF Completed
<1> QED BY <1>3, <1>4

\* A turn of the loop over the messages of buf.
LEMMA OneStep ==
  ASSUME NEW P, NEW b \in Nat, NEW a \in Nat, NEW buf, Cut(P, b, a, buf),
         NEW x \in 0 .. a - b, Boundary(P, b + x),
         NEW y, y = IF Ready(buf, x) THEN x + buf[x + 1].need ELSE x
  PROVE  /\ y = IF Ready(buf, x) THEN End(P, b + x) - b ELSE x
         /\ y \in 0 .. a - b /\ Boundary(P, b + y)
<1>1. WellFormed(P) /\ Len(P) \in Nat /\ b <= a /\ a <= Len(P) /\ a - b \in Nat
  BY CutFacts
<1>2. CASE Ready(buf, x)
  <2> PICK v \in Nat : v = b + x
    OBVIOUS
  <2>1. Begin(P, v) /\ End(P, v) <= a /\ x + buf[x + 1].need = End(P, v) - b
    BY <1>2, CompleteIs DEF Completed
  <2>3. End(P, v) \in v + 1 .. Len(P) /\ Boundary(P, End(P, v))
    BY <2>1, <1>1, BeginFacts, EndIsBoundary
  <2> PICK z : z = End(P, v)
    OBVIOUS
  <2>4. z \in Nat /\ b <= z /\ z <= a /\ y = z - b /\ Boundary(P, z)
    BY <2>1, <2>3, <1>1, <1>2
  <2>5. b + y = z /\ y \in 0 .. a - b
    BY <2>4, <1>1
  <2> QED BY <2>4, <2>5, <1>2
<1>3. CASE ~Ready(buf, x)
  BY <1>3
<1> QED BY <1>2, <1>3

\* Where the k-th message ends, as long as there is one.
Passed(P, b, a, end, k) == end[k] \in 0 .. a - b /\ Boundary(P, b + end[k])
Walk(P, b, a, buf, end) ==
  /\ \A k \in 0 .. a - b : Passed(P, b, a, end, k)
  /\ end[0] = 0
  /\ \A k \in 1 .. a - b :
       end[k] = IF Ready(buf, end[k - 1]) THEN End(P, b + end[k - 1]) - b ELSE end[k - 1]

LEMMA EndsWalk ==
  ASSUME NEW P, NEW b \in Nat, NEW a \in Nat, NEW buf, Cut(P, b, a, buf)
  PROVE  Walk(P, b, a, buf, User!Ends(buf))
<1>1. a - b \in Nat /\ Len(buf) = a - b
  BY CutFacts
<1> PICK n \in Nat : n = a - b
  BY <1>1
<1> PICK end : end = User!Ends(buf)
  OBVIOUS
<1>2. Len(buf) = n /\ Boundary(P, b)
  BY CutFacts
<1>3. end = [k \in 0 .. n |-> Step(buf, end, k)]
  BY <1>2, EndsUnfold
<1>4. end[0] = 0
  <2>1. 0 \in 0 .. n
    OBVIOUS
  <2> QED BY <2>1, <1>3 DEF Step
<1>5. ASSUME NEW k \in 1 .. n
      PROVE  end[k] = IF Ready(buf, end[k - 1])
                      THEN end[k - 1] + buf[end[k - 1] + 1].need ELSE end[k - 1]
  <2>1. k \in 0 .. n /\ k # 0
    OBVIOUS
  <2> QED BY <2>1, <1>3 DEF Step
<1>b. PICK S : S = {k \in 0 .. n : Passed(P, b, a, end, k)}
  OBVIOUS
<1>6. 0 \in S
  BY <1>2, <1>4, <1>b DEF Passed
<1>7. ASSUME NEW k \in 1 .. n, Passed(P, b, a, end, k - 1)
      PROVE  /\ end[k] = IF Ready(buf, end[k - 1])
                         THEN End(P, b + end[k - 1]) - b ELSE end[k - 1]
             /\ Passed(P, b, a, end, k)
  <2> PICK x \in 0 .. a - b : x = end[k - 1] /\ Boundary(P, b + x)
    BY <1>7 DEF Passed
  <2> PICK y : y = end[k]
    OBVIOUS
  <2>1. y = IF Ready(buf, x) THEN x + buf[x + 1].need ELSE x
    BY <1>5
  <2>2. /\ y = IF Ready(buf, x) THEN End(P, b + x) - b ELSE x
        /\ y \in 0 .. a - b /\ Boundary(P, b + y)
    BY <2>1, OneStep
  <2> QED BY <2>2 DEF Passed
<1>8. 0 .. n \subseteq S
  <2>1. \A k \in 1 .. n : k - 1 \in S => k \in S
    BY <1>7, <1>b
  <2> QED BY <2>1, <1>6, UpTo
<1>9. \A k \in 0 .. n : Passed(P, b, a, end, k)
  BY <1>8, <1>b
<1>10. \A k \in 1 .. n : k - 1 \in 0 .. n
  OBVIOUS
<1> QED BY <1>4, <1>7, <1>9, <1>10 DEF Walk

\* Each step passes a message, until none is complete.
Stepped(P, b, a, buf, end, k, y) ==
  /\ end[k - 1] \in 0 .. a - b /\ end[k] \in 0 .. a - b
  /\ y \in b .. a /\ Boundary(P, y)
  /\ Ready(buf, end[k - 1]) =>
       /\ Begin(P, y) /\ End(P, y) \in y + 1 .. a
       /\ b + end[k] = End(P, y) /\ end[k] > end[k - 1]
  /\ ~Ready(buf, end[k - 1]) => end[k] = end[k - 1]
  /\ y < a /\ End(P, y) <= a => Ready(buf, end[k - 1])

LEMMA WalkStep ==
  ASSUME NEW P, NEW b \in Nat, NEW a \in Nat, NEW buf, Cut(P, b, a, buf), NEW end,
         Walk(P, b, a, buf, end), NEW k \in 1 .. a - b, NEW y, y = b + end[k - 1]
  PROVE  Stepped(P, b, a, buf, end, k, y)
<1>1. WellFormed(P) /\ Len(P) \in Nat /\ b <= a /\ a <= Len(P) /\ a - b \in Nat
  BY CutFacts
<1> PICK j : j = k - 1
  OBVIOUS
<1>2. j \in 0 .. a - b /\ k \in 0 .. a - b
  OBVIOUS
<1>b. PICK x, z : x = end[j] /\ z = end[k]
  OBVIOUS
<1>3. Passed(P, b, a, end, j) /\ Passed(P, b, a, end, k)
  BY <1>2 DEF Walk
<1>4. x \in 0 .. a - b /\ z \in 0 .. a - b /\ Boundary(P, b + x)
  BY <1>3, <1>b DEF Passed
<1>5. z = IF Ready(buf, x) THEN End(P, b + x) - b ELSE x
  BY <1>b DEF Walk
<1>6. y = b + x /\ y \in Nat /\ y \in b .. a
  BY <1>1, <1>4, <1>b
<1>c. Completed(P, b, a, buf, x, y)
  BY <1>4, <1>6, CompleteIs
<1>7. /\ Ready(buf, x) => Begin(P, y) /\ End(P, y) <= a /\ x + buf[x + 1].need = End(P, y) - b
      /\ y < a /\ End(P, y) <= a => Ready(buf, x)
  BY <1>c DEF Completed
<1>8. ASSUME Ready(buf, x)
      PROVE  Begin(P, y) /\ End(P, y) \in y + 1 .. a /\ b + z = End(P, y) /\ z > x
  <2>1. Begin(P, y) /\ End(P, y) <= a
    BY <1>7, <1>8
  <2>2. End(P, y) \in y + 1 .. Len(P)
    BY <2>1, <1>1, BeginFacts
  <2> PICK v : v = End(P, y)
    OBVIOUS
  <2>3. v \in y + 1 .. a /\ z = v - b
    BY <2>1, <2>2, <1>1, <1>5, <1>6, <1>8
  <2> QED BY <2>1, <2>3, <1>4, <1>6
<1> QED BY <1>b, <1>4, <1>5, <1>6, <1>7, <1>8 DEF Stepped

LEMMA NothingIsLeft ==
  ASSUME NEW P, NEW b \in Nat, NEW a \in Nat, NEW buf, Cut(P, b, a, buf), NEW end,
         Walk(P, b, a, buf, end)
  PROVE  ~Ready(buf, end[a - b])
<1>1. a - b \in Nat /\ Len(buf) = a - b
  BY CutFacts
<1> PICK n \in Nat : n = a - b
  BY <1>1
<1>a. PICK S : S = {k \in 0 .. n : end[k] >= k \/ ~Ready(buf, end[k])}
  OBVIOUS
<1>2. 0 \in S
  <2>1. end[0] = 0
    BY DEF Walk
  <2> QED BY <2>1, <1>a
<1>3. ASSUME NEW k \in 1 .. n, k - 1 \in S PROVE k \in S
  <2>0. Stepped(P, b, a, buf, end, k, b + end[k - 1])
    BY WalkStep
  <2>a. PICK x, z : x = end[k - 1] /\ z = end[k]
    OBVIOUS
  <2>1. x \in 0 .. n /\ z \in 0 .. n /\ (Ready(buf, x) => z > x) /\ (~Ready(buf, x) => z = x)
    BY <2>0, <2>a DEF Stepped
  <2>2. x >= k - 1 \/ ~Ready(buf, x)
    BY <1>3, <1>a, <2>a
  <2>3. z >= k \/ ~Ready(buf, z)
    BY <2>1, <2>2
  <2> QED BY <2>3, <2>a, <1>a
<1>4. n \in S
  BY <1>2, <1>3, UpTo
<1>5. ASSUME end[n] >= n PROVE ~Ready(buf, end[n])
  <2>1. Passed(P, b, a, end, n)
    BY DEF Walk
  <2>2. end[n] \in 0 .. n
    BY <2>1 DEF Passed
  <2> QED BY <2>2, <1>1, <1>5 DEF Ready
<1> QED BY <1>4, <1>5, <1>a

LEMMA EveryMessageIsMet ==
  ASSUME NEW P, NEW b \in Nat, NEW a \in Nat, NEW buf, Cut(P, b, a, buf), NEW end,
         Walk(P, b, a, buf, end), NEW x \in Within(P, b, a)
  PROVE  \E k \in 1 .. a - b : b + end[k - 1] = x /\ Ready(buf, end[k - 1])
<1>1. /\ WellFormed(P) /\ Len(P) \in Nat /\ b <= a /\ a <= Len(P) /\ a - b \in Nat
  BY CutFacts
<1> PICK n \in Nat : n = a - b
  BY <1>1
<1>2. x \in b .. a /\ Begin(P, x) /\ End(P, x) <= a
  BY DEF Within
<1>3. x \in Nat /\ Boundary(P, x) /\ x < a /\ End(P, x) \in x + 1 .. a
  <2>1. End(P, x) \in x + 1 .. Len(P)
    BY <1>1, <1>2, BeginFacts
  <2> QED BY <2>1, <1>1, <1>2 DEF Boundary
<1>a. PICK S : S = {k \in 0 .. n :
                     \/ b + end[k] <= x
                     \/ \E j \in 1 .. k : b + end[j - 1] = x /\ Ready(buf, end[j - 1])}
  OBVIOUS
<1>4. 0 \in S
  <2>1. end[0] = 0
    BY DEF Walk
  <2> QED BY <2>1, <1>2, <1>a
<1>5. ASSUME NEW y, y \in b .. a, Boundary(P, y), y < x
      PROVE  Begin(P, y) /\ End(P, y) <= x
  <2>1. Begin(P, y) /\ y \in Nat
    BY <1>1, <1>3, <1>5 DEF Boundary
  <2> QED BY <2>1, <1>1, <1>3, <1>5, NoneReachesOver
<1>6. ASSUME NEW k \in 1 .. n, k - 1 \in S PROVE k \in S
  <2>1. CASE \E j \in 1 .. k - 1 : b + end[j - 1] = x /\ Ready(buf, end[j - 1])
    BY <2>1, <1>a
  <2>2. CASE b + end[k - 1] <= x
    <3>a. PICK y : y = b + end[k - 1]
      OBVIOUS
    <3>b. Stepped(P, b, a, buf, end, k, y)
      BY <3>a, WalkStep
    <3>1. /\ end[k - 1] \in 0 .. n /\ end[k] \in 0 .. n
          /\ y \in b .. a /\ Boundary(P, y)
          /\ Ready(buf, end[k - 1]) => b + end[k] = End(P, y)
          /\ ~Ready(buf, end[k - 1]) => end[k] = end[k - 1]
          /\ y < a /\ End(P, y) <= a => Ready(buf, end[k - 1])
      BY <3>b DEF Stepped
    <3>2. CASE y = x
      <4>1. k \in 1 .. k /\ b + end[k - 1] = x /\ Ready(buf, end[k - 1])
        BY <3>a, <3>1, <3>2, <1>3
      <4> QED BY <4>1, <1>a
    <3>3. CASE y < x
      <4>1. End(P, y) <= x
        BY <3>1, <3>3, <1>5
      <4>2. b + end[k] = End(P, y) \/ b + end[k] = y
        BY <3>a, <3>1
      <4>3. b + end[k] <= x
        BY <4>1, <4>2, <3>1, <3>3, <1>1, <1>3
      <4> QED BY <4>3, <1>a
    <3>4. y <= x /\ y \in Nat
      BY <3>a, <3>1, <2>2, <1>1
    <3> QED BY <3>2, <3>3, <3>4, <1>3
  <2> QED BY <2>1, <2>2, <1>6, <1>a
<1>7. n \in S
  BY <1>4, <1>6, UpTo
<1>8. ASSUME b + end[n] <= x PROVE FALSE
  <2> PICK y : y = b + end[n]
    OBVIOUS
  <2>1. Passed(P, b, a, end, n)
    BY DEF Walk
  <2>2. end[n] \in 0 .. n /\ Boundary(P, y) /\ y \in b .. a
    BY <2>1, <1>1 DEF Passed
  <2>3. y < a /\ End(P, y) <= a
    <3>1. y = x \/ y < x
      BY <2>2, <1>8, <1>3
    <3> QED BY <3>1, <2>2, <1>1, <1>3, <1>5, BeginFacts, SMTT(20)
  <2>4. Ready(buf, end[n])
    BY <2>2, <2>3, CompleteIs DEF Completed
  <2> QED BY <2>4, NothingIsLeft
<1> QED BY <1>7, <1>8, <1>a

\* What the parser takes from a piece of a plaintext that begins where a message does is
\* its whole messages, and what remains begins where a message does.
Wholes(P, b, a, buf) ==
  /\ User!Messages(buf) = {MsgAt(P, x) : x \in Within(P, b, a)}
  /\ \E z \in b .. a : Boundary(P, z) /\ User!Remainder(buf) = SubSeq(P, z + 1, a)

LEMMA ParsedWhole ==
  ASSUME NEW P, NEW b \in Nat, NEW a \in Nat, NEW buf, Cut(P, b, a, buf)
  PROVE  Wholes(P, b, a, buf)
<1>1. WellFormed(P) /\ Len(P) \in Nat /\ b <= a /\ a <= Len(P) /\ a - b \in Nat /\ Len(buf) = a - b
  BY CutFacts
<1> PICK n \in Nat : n = a - b
  BY <1>1
<1>a. PICK end : end = User!Ends(buf)
  OBVIOUS
<1>2. Walk(P, b, a, buf, end)
  BY <1>a, EndsWalk
<1>3. \A x, y \in 0 .. n : SubSeq(buf, x + 1, y) = SubSeq(P, b + x + 1, b + y)
  BY <1>1, Piece DEF Cut
<1>4. ASSUME NEW k \in 1 .. n, end[k] > end[k - 1]
      PROVE  /\ b + end[k - 1] \in Within(P, b, a)
             /\ SubSeq(buf, end[k - 1] + 1, end[k]) = MsgAt(P, b + end[k - 1])
  <2>a. PICK y : y = b + end[k - 1]
    OBVIOUS
  <2>b. Stepped(P, b, a, buf, end, k, y)
    BY <2>a, <1>2, WalkStep
  <2>1. /\ end[k - 1] \in 0 .. n /\ end[k] \in 0 .. n /\ y \in b .. a
        /\ Ready(buf, end[k - 1]) =>
             Begin(P, y) /\ End(P, y) \in y + 1 .. a /\ b + end[k] = End(P, y)
        /\ ~Ready(buf, end[k - 1]) => end[k] = end[k - 1]
    BY <2>b DEF Stepped
  <2>2. Ready(buf, end[k - 1])
    BY <2>1, <1>4
  <2>3. y \in Within(P, b, a)
    BY <2>1, <2>2 DEF Within
  <2>4. SubSeq(buf, end[k - 1] + 1, end[k]) = SubSeq(P, b + end[k - 1] + 1, b + end[k])
    BY <2>1, <1>3
  <2>5. SubSeq(P, b + end[k - 1] + 1, b + end[k]) = MsgAt(P, y)
    BY <2>a, <2>1, <2>2 DEF MsgAt
  <2> QED BY <2>a, <2>3, <2>4, <2>5
<1>5. ASSUME NEW x \in Within(P, b, a)
      PROVE  \E k \in 1 .. n : end[k] > end[k - 1] /\ b + end[k - 1] = x
  <2>1. PICK k \in 1 .. n : b + end[k - 1] = x /\ Ready(buf, end[k - 1])
    BY <1>2, EveryMessageIsMet
  <2>2. Stepped(P, b, a, buf, end, k, x)
    BY <2>1, <1>2, WalkStep
  <2> QED BY <2>1, <2>2 DEF Stepped
<1>6. User!Messages(buf) =
        {SubSeq(buf, end[k - 1] + 1, end[k]) : k \in {j \in 1 .. n : end[j] > end[j - 1]}}
  BY <1>1, <1>a DEF User!Messages
<1>7. User!Messages(buf) = {MsgAt(P, x) : x \in Within(P, b, a)}
  <2>1. ASSUME NEW msg \in User!Messages(buf) PROVE msg \in {MsgAt(P, x) : x \in Within(P, b, a)}
    <3>1. PICK k \in 1 .. n : end[k] > end[k - 1] /\ msg = SubSeq(buf, end[k - 1] + 1, end[k])
      BY <1>6, <2>1
    <3> QED BY <3>1, <1>4
  <2>2. ASSUME NEW x \in Within(P, b, a) PROVE MsgAt(P, x) \in User!Messages(buf)
    <3>1. PICK k \in 1 .. n : end[k] > end[k - 1] /\ b + end[k - 1] = x
      BY <1>5
    <3>2. SubSeq(buf, end[k - 1] + 1, end[k]) = MsgAt(P, x)
      BY <3>1, <1>4
    <3> QED BY <3>1, <3>2, <1>6
  <2> QED BY <2>1, <2>2
<1>8. \E z \in b .. a : Boundary(P, z) /\ User!Remainder(buf) = SubSeq(P, z + 1, a)
  <2>1. Passed(P, b, a, end, n)
    BY <1>2 DEF Walk
  <2>2. end[n] \in 0 .. n /\ Boundary(P, b + end[n]) /\ n \in 0 .. n
    BY <2>1 DEF Passed
  <2>3. User!Remainder(buf) = SubSeq(buf, end[n] + 1, n)
    BY <1>1, <1>a DEF User!Remainder
  <2>4. SubSeq(buf, end[n] + 1, n) = SubSeq(P, b + end[n] + 1, b + n)
    BY <2>2, <1>3
  <2>5. b + end[n] \in b .. a /\ b + n = a
    BY <2>2, <1>1
  <2> QED BY <2>2, <2>3, <2>4, <2>5
<1> QED BY <1>7, <1>8 DEF Wholes

Dirs == {"recv", "send"}

LEMMA PlainIsWellFormed ==
  ASSUME NEW s \in Sessions, NEW dir
  PROVE  WellFormed(Plain(dir)[s])
BY PlaintextAssumption DEF Plain

\* The units of a message lie where the message does.
LEMMA UnitsAre ==
  ASSUME NEW s \in Sessions, NEW dir, NEW P, P = Plain(dir)[s], NEW x, Begin(P, x),
         NEW m, m = P[x + 1].m
  PROVE  /\ Places(s, dir, m) = x + 1 .. End(P, x)
         /\ Units(s, dir, m) = MsgAt(P, x)
<1>1. WellFormed(P)
  BY PlainIsWellFormed
<1>2. /\ Len(P) \in Nat /\ x \in 0 .. Len(P) - 1 /\ x + 1 \in 1 .. Len(P)
      /\ Before(P, x + 1) = x /\ End(P, x) \in x + 1 .. Len(P) /\ End(P, x) = x + P[x + 1].need
  BY <1>1, BeginFacts
<1>3. \A k \in 1 .. Len(P) : P[k].m = m <=> k \in x + 1 .. End(P, x)
  BY <1>1, <1>2 DEF WellFormed
<1>4. Places(s, dir, m) = x + 1 .. End(P, x)
  BY <1>2, <1>3 DEF Places
<1> PICK y \in Nat : y = End(P, x) /\ x + 1 <= y
  BY <1>2
<1> PICK v \in Nat : v = x + 1
  BY <1>2
<1>5. (CHOOSE j \in v .. y : \A k \in v .. y : j <= k) = v
  <2>1. v \in v .. y /\ \A k \in v .. y : v <= k
    OBVIOUS
  <2>2. \A j \in v .. y : (\A k \in v .. y : j <= k) => j = v
    BY <2>1
  <2> QED BY <2>1, <2>2
<1>6. (CHOOSE j \in v .. y : \A k \in v .. y : k <= j) = y
  <2>1. y \in v .. y /\ \A k \in v .. y : k <= y
    OBVIOUS
  <2>2. \A j \in v .. y : (\A k \in v .. y : k <= j) => j = y
    BY <2>1
  <2> QED BY <2>1, <2>2
<1>7. Units(s, dir, m) = SubSeq(P, CHOOSE j \in v .. y : \A k \in v .. y : j <= k,
                                   CHOOSE j \in v .. y : \A k \in v .. y : k <= j)
  BY <1>4 DEF Units
<1>8. Units(s, dir, m) = SubSeq(P, v, y)
  BY <1>5, <1>6, <1>7
<1> QED BY <1>4, <1>8 DEF MsgAt

\* The units of direction dir of session s up to place z, which are all that a parser
\* finds there, whatever is cut off.
Prior(s, dir, z) == {Plain(dir)[s][j] : j \in 1 .. z}

LEMMA ParsedScraps ==
  ASSUME NEW R, \A unit \in R : unit.need \in Nat, NEW buf \in Seq(R)
  PROVE  /\ \A msg \in User!Messages(buf) : msg \in Seq(R)
         /\ User!Remainder(buf) \in Seq(R)
<1>a. PICK n \in Nat : n = Len(buf)
  OBVIOUS
<1>b. PICK end : end = User!Ends(buf)
  OBVIOUS
<1>1. end = [k \in 0 .. n |-> Step(buf, end, k)]
  BY <1>a, <1>b, EndsUnfold
<1>c. PICK S : S = {k \in 0 .. n : end[k] \in 0 .. n}
  OBVIOUS
<1>2. 0 \in S
  <2>1. 0 \in 0 .. n
    OBVIOUS
  <2> QED BY <2>1, <1>1, <1>c DEF Step
<1>3. ASSUME NEW k \in 1 .. n, k - 1 \in S PROVE k \in S
  <2>1. k \in 0 .. n /\ k # 0 /\ end[k - 1] \in 0 .. n
    BY <1>3, <1>c
  <2>2. PICK x \in 0 .. n : x = end[k - 1]
    BY <2>1
  <2>3. end[k] = IF Ready(buf, x) THEN x + buf[x + 1].need ELSE x
    BY <2>1, <2>2, <1>1 DEF Step
  <2>4. ASSUME Ready(buf, x) PROVE x + buf[x + 1].need \in 0 .. n
    <3>1. x < n /\ x + buf[x + 1].need <= n
      BY <2>4, <1>a DEF Ready
    <3>2. x + 1 \in 1 .. Len(buf)
      BY <3>1, <1>a
    <3>3. buf[x + 1] \in R
      BY <3>2
    <3>4. PICK need \in Nat : need = buf[x + 1].need
      BY <3>3
    <3>5. x + need \in 0 .. n
      BY <3>1, <3>4
    <3> QED BY <3>4, <3>5
  <2> QED BY <2>1, <2>3, <2>4, <1>c
<1>4. \A k \in 0 .. n : end[k] \in 0 .. n
  <2>1. 0 .. n \subseteq S
    BY <1>2, <1>3, UpTo
  <2> QED BY <2>1, <1>c
<1>5. ASSUME NEW x \in 0 .. n, NEW y \in 0 .. n PROVE SubSeq(buf, x + 1, y) \in Seq(R)
  BY <1>a
<1>6. ASSUME NEW msg \in User!Messages(buf) PROVE msg \in Seq(R)
  <2>1. PICK k \in 1 .. n : msg = SubSeq(buf, end[k - 1] + 1, end[k])
    BY <1>a, <1>b DEF User!Messages
  <2>2. k \in 0 .. n /\ k - 1 \in 0 .. n
    OBVIOUS
  <2> QED BY <2>1, <2>2, <1>4, <1>5
<1>7. User!Remainder(buf) \in Seq(R)
  <2>1. User!Remainder(buf) = SubSeq(buf, end[n] + 1, n) /\ n \in 0 .. n
    BY <1>a, <1>b DEF User!Remainder
  <2> QED BY <2>1, <1>4, <1>5
<1> QED BY <1>6, <1>7

LEMMA PriorUnits ==
  ASSUME NEW s \in Sessions, NEW dir, NEW z \in Nat, z <= Len(Plain(dir)[s])
  PROVE  /\ \A unit \in Prior(s, dir, z) : unit.need \in Nat
         /\ \A x, y \in 0 .. z : SubSeq(Plain(dir)[s], x + 1, y) \in Seq(Prior(s, dir, z))
<1>a. PICK P : P = Plain(dir)[s]
  OBVIOUS
<1>1. WellFormed(P) /\ P \in Seq(SetOf(P)) /\ Len(P) \in Nat
  BY <1>a, PlainIsWellFormed DEF WellFormed
<1>2. \A unit \in Prior(s, dir, z) : unit.need \in Nat
  BY <1>a, <1>1 DEF Prior, WellFormed
<1>3. ASSUME NEW x \in 0 .. z, NEW y \in 0 .. z
      PROVE  SubSeq(P, x + 1, y) \in Seq(Prior(s, dir, z))
  <2>1. PICK part : part = SubSeq(P, x + 1, y)
    OBVIOUS
  <2>2. x \in Nat /\ y \in Nat /\ y <= Len(P)
    BY <1>a, <1>1
  <2>3. part \in Seq(SetOf(P)) /\ Len(part) \in Nat
    BY <2>1, <2>2, <1>1
  <2>4. ASSUME NEW i \in 1 .. Len(part) PROVE part[i] \in Prior(s, dir, z)
    <3>1. part[i] = P[x + i] /\ x + i \in 1 .. y
      <4>1. CASE x + 1 <= y
        <5>1. Len(part) = y - x
          BY <2>1, <2>2, <4>1, <1>1
        <5> QED BY <5>1, <2>1, <2>2, <4>1, <1>1
      <4>2. CASE ~(x + 1 <= y)
        <5>1. Len(part) = 0
          BY <2>1, <2>2, <4>2, <1>1
        <5> QED BY <5>1
      <4> QED BY <4>1, <4>2
    <3> QED BY <3>1, <1>a DEF Prior
  <2>5. part \in Seq(Prior(s, dir, z))
    <3>1. part = [i \in 1 .. Len(part) |-> part[i]]
      BY <2>3
    <3> PICK n \in Nat : n = Len(part)
      BY <2>3
    <3>2. part \in [1 .. n -> Prior(s, dir, z)]
      BY <3>1, <2>4
    <3> QED BY <3>2
  <2> QED BY <2>1, <2>5
<1> QED BY <1>a, <1>2, <1>3

\* More is read.
LEMMA PriorGrows ==
  ASSUME NEW s, NEW dir, NEW a \in Nat, NEW z \in Nat, a <= z, NEW buf \in Seq(Prior(s, dir, a))
  PROVE  buf \in Seq(Prior(s, dir, z))
<1>1. Prior(s, dir, a) \subseteq Prior(s, dir, z)
  BY DEF Prior
<1> QED BY <1>1

LEMMA PriorJoined ==
  ASSUME NEW s, NEW dir, NEW a \in Nat, NEW z \in Nat, a <= z, NEW buf \in Seq(Prior(s, dir, a)),
         NEW data \in Seq(Prior(s, dir, z))
  PROVE  buf \o data \in Seq(Prior(s, dir, z))
<1>1. buf \in Seq(Prior(s, dir, z))
  BY PriorGrows
<1> QED BY <1>1

-----------------------------------------------------------------------------
(* The pending events of a session in one direction carry its plaintext     *)
(* from a to z, in order: at holds where the plaintext is before and after  *)
(* each event of the ring buffer r.                                         *)

\* An event has the plaintext from x to y, unless the rest of it was cut off.
CutShort(e) == e.len < e.read
Portion(e, s, dir, x, y) ==
  /\ e.data \in Seq(Prior(s, dir, y)) /\ (CutShort(e) => e.len = MaxBuf)
  /\ ~CutShort(e) => e.data = SubSeq(Plain(dir)[s], x + 1, y)

Carries(r, s, dir, at, i) ==
  IF r[i].of = s /\ r[i].dir = dir
  THEN /\ r[i].read \in Nat /\ at[i] = at[i - 1] + r[i].read
       /\ Portion(r[i], s, dir, at[i - 1], at[i])
  ELSE at[i] = at[i - 1]

Pending(r, s, dir, a, z) ==
  \E at \in [0 .. Len(r) -> 0 .. z] :
    at[0] = a /\ at[Len(r)] = z /\ \A i \in 1 .. Len(r) : Carries(r, s, dir, at, i)

LEMMA NothingPending ==
  ASSUME NEW r, Len(r) = 0, NEW s, NEW dir, NEW a, NEW z, Pending(r, s, dir, a, z)
  PROVE  a = z
BY DEF Pending

LEMMA PendingInit ==
  ASSUME NEW r, Len(r) = 0, NEW s, NEW dir
  PROVE  Pending(r, s, dir, 0, 0)
<1>1. PICK at : at = [i \in 0 .. 0 |-> 0]
  OBVIOUS
<1>2. at \in [0 .. Len(r) -> 0 .. 0] /\ at[0] = 0 /\ at[Len(r)] = 0 /\ 1 .. Len(r) = {}
  BY <1>1
<1> QED BY <1>2 DEF Pending

LEMMA PendingBound ==
  ASSUME NEW r, Len(r) \in Nat, NEW s, NEW dir, NEW a, NEW z, Pending(r, s, dir, a, z)
  PROVE  a \in 0 .. z
<1>1. 0 \in 0 .. Len(r)
  OBVIOUS
<1> QED BY <1>1 DEF Pending

\* The oldest event is taken.
Advances(r, q, s, dir, a, z) ==
  IF r[1].of = s /\ r[1].dir = dir
  THEN \E c \in a .. z : Portion(r[1], s, dir, a, c) /\ Pending(q, s, dir, c, z)
  ELSE Pending(q, s, dir, a, z)

LEMMA PendingTaken ==
  ASSUME NEW r, NEW q, NEW n \in Nat, Shifted(r, q, n), NEW s, NEW dir,
         NEW a \in Nat, NEW z \in Nat,
         Pending(r, s, dir, a, z)
  PROVE  Advances(r, q, s, dir, a, z)
<1>1. Len(r) = n + 1 /\ Len(q) = n /\ \A i \in 1 .. n : q[i] = r[i + 1]
  BY DEF Shifted
<1>2. PICK at \in [0 .. n + 1 -> 0 .. z] :
        at[0] = a /\ at[n + 1] = z /\ \A i \in 1 .. n + 1 : Carries(r, s, dir, at, i)
  BY <1>1 DEF Pending
<1>3. PICK new : new = [i \in 0 .. n |-> at[i + 1]]
  OBVIOUS
<1>4. \A i \in 0 .. n : i + 1 \in 0 .. n + 1
  OBVIOUS
<1>5. new \in [0 .. n -> 0 .. z] /\ new[n] = z /\ new[0] = at[1]
  BY <1>2, <1>3, <1>4
<1>6. ASSUME NEW i \in 1 .. n PROVE Carries(q, s, dir, new, i)
  <2>1. i + 1 \in 1 .. n + 1 /\ i - 1 \in 0 .. n /\ i \in 0 .. n /\ (i + 1) - 1 = (i - 1) + 1
    OBVIOUS
  <2>2. new[i] = at[i + 1] /\ new[i - 1] = at[(i + 1) - 1] /\ q[i] = r[i + 1]
    BY <2>1, <1>1, <1>3
  <2>3. Carries(r, s, dir, at, i + 1)
    BY <2>1, <1>2
  <2> QED BY <2>2, <2>3 DEF Carries
<1>7. Pending(q, s, dir, at[1], z)
  BY <1>1, <1>5, <1>6 DEF Pending
<1>8. 1 \in 1 .. n + 1 /\ 1 - 1 = 0 /\ 1 \in 0 .. n + 1
  OBVIOUS
<1>9. Carries(r, s, dir, at, 1)
  BY <1>2, <1>8
<1>10. CASE r[1].of = s /\ r[1].dir = dir
  <2> PICK c : c = at[1]
    OBVIOUS
  <2>1. r[1].read \in Nat /\ c = a + r[1].read /\ Portion(r[1], s, dir, a, c)
    BY <1>2, <1>8, <1>9, <1>10 DEF Carries
  <2>2. c \in 0 .. z
    BY <1>2, <1>8
  <2>3. c \in a .. z
    BY <2>1, <2>2, SMTT(20)
  <2> QED BY <2>1, <2>3, <1>7, <1>10 DEF Advances
<1>11. CASE ~(r[1].of = s /\ r[1].dir = dir)
  <2>1. at[1] = a
    BY <1>2, <1>8, <1>9, <1>11 DEF Carries
  <2> QED BY <2>1, <1>7, <1>11 DEF Advances
<1> QED BY <1>10, <1>11

\* An event is appended.
Longer(r, q, n, e) ==
  Len(r) = n /\ Len(q) = n + 1 /\ q[n + 1] = e /\ \A i \in 1 .. n : q[i] = r[i]

Arrives(e, s, dir, z, y) ==
  IF e.of = s /\ e.dir = dir THEN e.read = y - z /\ Portion(e, s, dir, z, y) ELSE y = z

LEMMA PendingGrown ==
  ASSUME NEW r, NEW q, NEW n \in Nat, NEW e, Longer(r, q, n, e),
         NEW s, NEW dir, NEW a \in Nat, NEW z \in Nat, Pending(r, s, dir, a, z),
         NEW y \in Nat, z <= y, Arrives(e, s, dir, z, y)
  PROVE  Pending(q, s, dir, a, y)
<1>a. Len(r) = n /\ Len(q) = n + 1 /\ q[n + 1] = e /\ \A i \in 1 .. n : q[i] = r[i]
  BY DEF Longer
<1>b. IF e.of = s /\ e.dir = dir THEN e.read = y - z /\ Portion(e, s, dir, z, y) ELSE y = z
  BY DEF Arrives
<1>1. PICK at \in [0 .. n -> 0 .. z] :
        at[0] = a /\ at[n] = z /\ \A i \in 1 .. n : Carries(r, s, dir, at, i)
  BY <1>a DEF Pending
<1>2. PICK new : new = [i \in 0 .. n + 1 |-> IF i = n + 1 THEN y ELSE at[i]]
  OBVIOUS
<1>3. \A i \in 0 .. n + 1 : i = n + 1 \/ i \in 0 .. n
  OBVIOUS
<1>4. new \in [0 .. n + 1 -> 0 .. y]
  BY <1>1, <1>2, <1>3
<1>5. new[0] = a /\ new[n] = z /\ new[n + 1] = y
  BY <1>1, <1>2
<1>6. ASSUME NEW i \in 1 .. n PROVE Carries(q, s, dir, new, i)
  <2>1. new[i] = at[i] /\ new[i - 1] = at[i - 1]
    BY <1>2
  <2> QED BY <2>1, <1>1, <1>a DEF Carries
<1>7. Carries(q, s, dir, new, n + 1)
  <2>1. (n + 1) - 1 = n /\ y - z \in Nat /\ z + (y - z) = y
    OBVIOUS
  <2> QED BY <2>1, <1>5, <1>a, <1>b DEF Carries
<1>8. \A i \in 1 .. n + 1 : i = n + 1 \/ i \in 1 .. n
  OBVIOUS
<1>9. \A i \in 1 .. n + 1 : Carries(q, s, dir, new, i)
  BY <1>6, <1>7, <1>8
<1> QED BY <1>4, <1>5, <1>9, <1>a DEF Pending

\* What nginx has read and written of a session that is not accepted yet.
NotRead ==
  \A s \in Sessions :
    sess[s].st \in {"new", "accepting"} => sess[s].recv = 0 /\ sess[s].send = 0
Counted(t) == sess'[t].recv = sess[t].recv /\ sess'[t].send = sess[t].send

\* A read or write of n units of session s.
Moved(s, dir, n, e) ==
  /\ ring' = Append(ring, e) /\ e.of = s /\ e.dir = dir /\ e.read = n
  /\ Portion(e, s, dir, sess[s][dir], sess[s][dir] + n)
  /\ sess[s][dir] + n <= Len(Plain(dir)[s])
  /\ sess' = [sess EXCEPT ![s][dir] = sess[s][dir] + n]

Unmoved ==
  /\ \A t \in Sessions : Counted(t)
  /\ ring' = ring \/ \E e : ring' = Append(ring, e) /\ e.dir = "close"

Motion ==
  \/ Unmoved
  \/ \E s \in Sessions, dir \in Dirs, n \in Nat, e \in EventType : Moved(s, dir, n, e)

LEMMA Replaced ==
  ASSUME IInv, NotRead, NEW s \in Sessions, NEW rec, sess' = [sess EXCEPT ![s] = rec],
         rec.recv = sess[s].recv, rec.send = sess[s].send,
         rec.st \in {"new", "accepting"} => sess[s].st \in {"new", "accepting"}
  PROVE  NotRead' /\ \A t \in Sessions : Counted(t)
<1>1. sess \in [Sessions -> SessionType]
  BY DEF IInv, StateType
<1> QED BY <1>1 DEF NotRead, Counted

LEMMA ExitPortion ==
  ASSUME NEW s \in Sessions, NEW dir, NEW x \in Nat, NEW n \in Nat \ {0},
         x + n <= Len(Plain(dir)[s]), NEW len, len = Smaller(n, MaxBuf), NEW e, e.len = len,
         e.read = n, e.data = SubSeq(Plain(dir)[s], x + 1, x + len)
  PROVE  Portion(e, s, dir, x, x + n)
<1>1. MaxBuf \in Nat
  BY HookAssumption
<1>2. len \in Nat /\ len <= n /\ (len < n => len = MaxBuf) /\ (~(len < n) => len = n)
  BY <1>1 DEF Smaller
<1>3. PICK z \in Nat : z = x + n
  OBVIOUS
<1>4. x \in 0 .. z /\ z <= Len(Plain(dir)[s])
  BY <1>3
<1>5. PICK y \in 0 .. z : y = x + len
  <2>1. x + len \in Nat /\ x + len <= x + n
    BY ONLY <1>2, x \in Nat, n \in Nat
  <2> QED BY <2>1, <1>3
<1>6. e.data \in Seq(Prior(s, dir, z))
  BY <1>4, <1>5, PriorUnits
<1>7. ~(len < n) => e.data = SubSeq(Plain(dir)[s], x + 1, z)
  BY <1>2, <1>3, <1>5
<1> QED BY <1>2, <1>3, <1>6, <1>7 DEF Portion, CutShort

LEMMA WorkerMotion ==
  ASSUME IInv, NotRead, HasRoom, NEW w \in Workers, Worker(w)
  PROVE  NotRead' /\ Motion
<1>1. sess \in [Sessions -> SessionType]
  BY DEF IInv, StateType
<1>2. ASSUME NEW s \in Sessions, NEW rec, sess' = [sess EXCEPT ![s] = rec], ring' = ring,
             rec.recv = sess[s].recv, rec.send = sess[s].send, rec.st \notin {"new", "accepting"}
      PROVE  NotRead' /\ Motion
  BY <1>2, Replaced DEF Motion, Unmoved
<1>3. ASSUME NEW c \in Clients, inet_csk_accept_exit(w, c) PROVE NotRead' /\ Motion
  <2>1. /\ c \in Sessions /\ sess[c].st = "new" /\ ring' = ring
        /\ sess' = [sess EXCEPT ![c].st = "accepting"]
    BY <1>3, ClientsAreSessions DEF inet_csk_accept_exit
  <2> QED BY <2>1, <1>1 DEF NotRead, Counted, Motion, Unmoved, SessionType
<1>5. ASSUME NEW fd \in Fds, accept_exit(w, fd) PROVE NotRead' /\ Motion
  <2>1. PICK c \in Clients : c = busy[w].s /\ sess[c].st = "accepting"
    BY <1>5 DEF accept_exit, IInv, Calls, CallOk
  <2>2. c \in Sessions /\ sess[c].recv = 0 /\ sess[c].send = 0
    BY <2>1, ClientsAreSessions DEF NotRead
  <2> QED BY <1>2, <1>5, <2>1, <2>2 DEF accept_exit, Accepted
<1>6. ASSUME accept_exit_error(w) PROVE NotRead' /\ Motion
  <2>1. PICK c \in Clients : c = busy[w].s /\ sess[c].st = "accepting"
    BY <1>6 DEF accept_exit_error, IInv, Calls, CallOk
  <2> QED BY <1>2, <1>6, <2>1, ClientsAreSessions DEF accept_exit_error, Closed
<1>7. ASSUME NEW u \in Upstreams, NEW fd \in Fds, Connect(w, u, fd) PROVE NotRead' /\ Motion
  <2>1. u \in Sessions /\ sess[u].st = "new" /\ sess[u].recv = 0 /\ sess[u].send = 0
    BY <1>7, ClientsAreSessions DEF Connect, NotRead
  <2> QED BY <1>2, <1>7, <2>1 DEF Connect, Accepted
<1>8. ASSUME NEW s \in Sessions, CloseSocket(w, s) PROVE NotRead' /\ Motion
  BY <1>2, <1>8 DEF CloseSocket, Closed
<1>9. ASSUME NEW s \in Sessions, NEW p \in Ptrs, ssl_set_fd(w, s, p) PROVE NotRead' /\ Motion
  BY <1>2, <1>9 DEF ssl_set_fd, Opened
<1>10. ASSUME sess' = sess, ring' = ring PROVE NotRead' /\ Motion
  BY <1>10 DEF NotRead, Counted, Motion, Unmoved
<1>11. ASSUME NEW s \in Sessions, ssl_free_entry(w, s) PROVE NotRead' /\ Motion
  <2>1. PICK e : ring' = Append(ring, e) /\ e.dir = "close"
    BY <1>11 DEF ssl_free_entry, Submit
  <2>2. NotRead' /\ \A t \in Sessions : Counted(t)
    BY <1>11, Replaced DEF ssl_free_entry, Closed
  <2> QED BY <2>1, <2>2 DEF Motion, Unmoved
<1>12. ASSUME NEW n \in 1 .. MaxCall, ssl_exit(w, n) PROVE NotRead' /\ Motion
  <2>1. MaxCall \in Nat /\ MaxBuf \in Nat
    BY HookAssumption
  <2>2. PICK s, dir : s = busy[w].s /\ dir = busy[w].call
    OBVIOUS
  <2>3. dir \in Dirs /\ s \in Sessions /\ sess[s].st = "open"
    BY <1>12, <2>2 DEF ssl_exit, IInv, Calls, CallOk, Dirs
  <2>4. PICK len : len = Smaller(n, MaxBuf)
    OBVIOUS
  <2>a. PICK x \in Nat : x = sess[s][dir]
    BY <2>3, <1>1 DEF SessionType, Dirs
  <2>b. n \in Nat \ {0}
    BY <2>1
  <2>5. PICK e : e = [dir |-> dir, pid |-> w, ssl |-> bufs[w], conn |-> ConnOf(w, bufs[w]),
                  len |-> len, data |-> SubSeq(Plain(dir)[s], x + 1, x + len),
                  of |-> s, read |-> n]
    OBVIOUS
  <2>6. /\ ring' = Append(ring, e) /\ sess' = [sess EXCEPT ![s][dir] = x + n]
        /\ x + n <= Len(Plain(dir)[s])
    BY <1>12, <2>2, <2>a, <2>4, <2>5 DEF ssl_exit, Submit
  <2>7. e \in EventType
    <3>1. IInv'
      BY HookStep DEF HookNext
    <3>2. /\ ring' \in Seq(EventType) /\ Len(ring') = Len(ring) + 1
          /\ ring'[Len(ring) + 1] = e /\ Len(ring) \in Nat
      BY <3>1, <2>6 DEF IInv, StateType
    <3> QED BY <3>2
  <2>8. Moved(s, dir, n, e)
    <3>1. e.len = len /\ e.read = n /\ e.data = SubSeq(Plain(dir)[s], x + 1, x + len)
      BY <2>5
    <3>2. Portion(e, s, dir, x, x + n)
      BY <3>1, <2>3, <2>4, <2>b, <2>6, ExitPortion
    <3>3. e.of = s /\ e.dir = dir /\ e.read = n
      BY <2>5
    <3> QED BY <3>2, <3>3, <2>a, <2>6 DEF Moved
  <2>9. NotRead'
    BY <2>3, <2>6, <1>1 DEF NotRead, Dirs, SessionType
  <2> QED BY <2>3, <2>b, <2>7, <2>8, <2>9 DEF Motion
<1>13. ASSUME \/ \E s \in Sessions, dir \in {"recv", "send"} : ssl_entry(w, s, dir)
              \/ ssl_exit_nothing(w)
       PROVE  NotRead' /\ Motion
  BY <1>10, <1>13 DEF ssl_entry, ssl_exit_nothing
<1> QED BY <1>3, <1>5, <1>6, <1>7, <1>8, <1>9, <1>11, <1>12, <1>13 DEF Worker

-----------------------------------------------------------------------------
(* What the daemon takes from an event.                                     *)

\* After place b there is no preface; a server sends none.
PrefacePassed(s, dir, b) == \A j \in b + 1 .. Len(Plain(dir)[s]) : Plain(dir)[s][j].m # 0
Entry(dir, conn, units) == [dir |-> dir, conn |-> conn, units |-> units]
Entries(dir, conn, msgs) == {Entry(dir, conn, msg) : msg \in msgs}

\* The entry is a whole message of s that lies before place z.
IsWhole(entry, s, dir, conn, z) ==
  \E x \in Within(Plain(dir)[s], 0, z) :
    Plain(dir)[s][x + 1].m # 0 /\ entry = Entry(dir, conn, MsgAt(Plain(dir)[s], x))

\* The entry is made of units of s that lie before place z.
IsScrap(entry, s, dir, conn, z) ==
  \E units \in Seq(Prior(s, dir, z)) : entry = Entry(dir, conn, units)

\* Of the directions in v a part was cut off and nothing looked.
Says(entry, s, dir, conn, z, v) ==
  IF dir \in v THEN IsScrap(entry, s, dir, conn, z) ELSE IsWhole(entry, s, dir, conn, z)

\* The messages of s that end after place a and not after z.
Later(s, dir, conn, a, z) ==
  {Entry(dir, conn, MsgAt(Plain(dir)[s], x)) :
     x \in {y \in Within(Plain(dir)[s], 0, z) :
              End(Plain(dir)[s], y) > a /\ Plain(dir)[s][y + 1].m # 0}}

\* The buffer holds what was read up to place a since the end of a message.
Clean(s, dir, a, buf) ==
  \E b \in 0 .. a : /\ Boundary(Plain(dir)[s], b) /\ PrefacePassed(s, dir, b)
                    /\ buf = SubSeq(Plain(dir)[s], b + 1, a)

Has(s, dir, a, buf, v) ==
  IF dir \in v THEN buf \in Seq(Prior(s, dir, a)) ELSE Clean(s, dir, a, buf)

\* What a parser makes of a buffer when the plaintext from a to z has come.
Parses(buf, s, dir, conn, a, z) ==
  /\ \A entry \in Entries(dir, conn, User!Messages(buf)) : IsWhole(entry, s, dir, conn, z)
  /\ Later(s, dir, conn, a, z) \subseteq Entries(dir, conn, User!Messages(buf))
  /\ Clean(s, dir, z, User!Remainder(buf))

LEMMA Parsed ==
  ASSUME NEW s \in Sessions, NEW dir, NEW conn, NEW a \in Nat, NEW z \in Nat, a <= z,
         z <= Len(Plain(dir)[s]), NEW kept, Clean(s, dir, a, kept), NEW data,
         data = SubSeq(Plain(dir)[s], a + 1, z), NEW buf, buf = kept \o data
  PROVE  Parses(buf, s, dir, conn, a, z)
<1>a. PICK P : P = Plain(dir)[s]
  OBVIOUS
<1>b. PICK b \in 0 .. a : Boundary(P, b) /\ PrefacePassed(s, dir, b) /\ kept = SubSeq(P, b + 1, a)
  BY <1>a DEF Clean
<1>1. WellFormed(P) /\ b \in Nat /\ b <= a /\ b <= z /\ Len(P) \in Nat /\ z <= Len(P)
  BY <1>a, <1>b, PlainIsWellFormed, SMTT(20) DEF WellFormed
<1>2. Cut(P, b, z, buf)
  <2>1. buf = SubSeq(P, b + 1, z)
    BY <1>a, <1>b, <1>1, Joined, SMTT(20)
  <2> QED BY <2>1, <1>1, <1>b DEF Cut
<1>3. /\ User!Messages(buf) = {MsgAt(P, x) : x \in Within(P, b, z)}
      /\ \E y \in b .. z : Boundary(P, y) /\ User!Remainder(buf) = SubSeq(P, y + 1, z)
  <2>1. b \in Nat
    BY <1>1
  <2>2. Wholes(P, b, z, buf)
    BY <2>1, <1>2, ParsedWhole
  <2> QED BY <2>2 DEF Wholes
<1>4. ASSUME NEW x \in Within(P, b, z) PROVE x \in Within(P, 0, z) /\ P[x + 1].m # 0
  <2>1. x \in b .. z /\ Begin(P, x)
    BY <1>4 DEF Within
  <2>2. x + 1 \in b + 1 .. Len(P)
    BY <2>1, <1>1, BeginFacts
  <2> QED BY <2>2, <1>a, <1>b, <1>1, <1>4 DEF Within, PrefacePassed
<1>5. ASSUME NEW x \in Within(P, 0, z), End(P, x) > a PROVE x \in Within(P, b, z)
  <2>1. x \in 0 .. z /\ Begin(P, x) /\ End(P, x) <= z /\ End(P, x) \in Nat
    <3>1. x \in 0 .. z /\ Begin(P, x) /\ End(P, x) <= z
      BY <1>5 DEF Within
    <3>2. End(P, x) \in x + 1 .. Len(P)
      BY <3>1, <1>1, BeginFacts
    <3> QED BY <3>1, <3>2, <1>1
  <2>2. ASSUME x < b PROVE FALSE
    <3>1. End(P, x) <= b
      BY <2>1, <2>2, <1>1, <1>b, NoneReachesOver
    <3> QED BY <3>1, <2>1, <1>1, <1>5
  <2> QED BY <2>1, <2>2, <1>1 DEF Within
<1>6. \A entry \in Entries(dir, conn, User!Messages(buf)) : IsWhole(entry, s, dir, conn, z)
  BY <1>a, <1>3, <1>4 DEF IsWhole, Entries
<1>7. Later(s, dir, conn, a, z) \subseteq Entries(dir, conn, User!Messages(buf))
  BY <1>a, <1>3, <1>5 DEF Later, Entries
<1>8. Clean(s, dir, z, User!Remainder(buf))
  <2>1. PICK y \in b .. z : Boundary(P, y) /\ User!Remainder(buf) = SubSeq(P, y + 1, z)
    BY <1>3
  <2>2. y \in 0 .. z /\ PrefacePassed(s, dir, y)
    BY <1>a, <1>b, <1>1 DEF PrefacePassed
  <2> QED BY <1>a, <2>1, <2>2 DEF Clean
<1> QED BY <1>6, <1>7, <1>8 DEF Parses

LEMMA WholeIsScrap ==
  ASSUME NEW entry, NEW s \in Sessions, NEW dir, NEW conn, NEW z \in Nat,
         z <= Len(Plain(dir)[s]), IsWhole(entry, s, dir, conn, z)
  PROVE  IsScrap(entry, s, dir, conn, z)
<1>a. PICK P : P = Plain(dir)[s]
  OBVIOUS
<1>1. PICK x \in Within(P, 0, z) : entry = Entry(dir, conn, MsgAt(P, x))
  BY <1>a DEF IsWhole
<1>2. x \in 0 .. z /\ Begin(P, x) /\ End(P, x) <= z
  BY DEF Within
<1>3. End(P, x) \in x + 1 .. Len(P) /\ Len(P) \in Nat
  BY <1>a, <1>2, BeginFacts, PlainIsWellFormed
<1>4. PICK y \in 0 .. z : y = End(P, x)
  BY <1>2, <1>3
<1>5. MsgAt(P, x) \in Seq(Prior(s, dir, z))
  BY <1>a, <1>2, <1>4, PriorUnits DEF MsgAt
<1> QED BY <1>1, <1>5 DEF IsScrap

LEMMA CleanIsScraps ==
  ASSUME NEW s \in Sessions, NEW dir, NEW a \in Nat, a <= Len(Plain(dir)[s]), NEW buf,
         NEW v, Has(s, dir, a, buf, v)
  PROVE  buf \in Seq(Prior(s, dir, a))
<1>1. CASE dir \in v
  BY <1>1 DEF Has
<1>2. CASE dir \notin v
  <2>1. PICK b \in 0 .. a : buf = SubSeq(Plain(dir)[s], b + 1, a)
    BY <1>2 DEF Has, Clean
  <2>2. a \in 0 .. a
    OBVIOUS
  <2> QED BY <2>1, <2>2, PriorUnits
<1> QED BY <1>1, <1>2

\* What a parser makes of a buffer that may have gaps.
Makes(buf, s, dir, conn, a, z, v) ==
  /\ \A entry \in Entries(dir, conn, User!Messages(buf)) : Says(entry, s, dir, conn, z, v)
  /\ dir \notin v => Later(s, dir, conn, a, z) \subseteq Entries(dir, conn, User!Messages(buf))
  /\ Has(s, dir, z, User!Remainder(buf), v)

LEMMA Made ==
  ASSUME NEW s \in Sessions, NEW dir, NEW conn, NEW a \in Nat, NEW z \in Nat, a <= z,
         z <= Len(Plain(dir)[s]), NEW v, NEW kept, Has(s, dir, a, kept, v),
         NEW data \in Seq(Prior(s, dir, z)),
         dir \notin v => data = SubSeq(Plain(dir)[s], a + 1, z), NEW buf, buf = kept \o data
  PROVE  Makes(buf, s, dir, conn, a, z, v)
<1>1. CASE dir \in v
  <2>1. kept \in Seq(Prior(s, dir, a))
    BY <1>1 DEF Has
  <2>2. buf \in Seq(Prior(s, dir, z))
    BY <2>1, PriorJoined
  <2>3. \A unit \in Prior(s, dir, z) : unit.need \in Nat
    BY PriorUnits
  <2>4. PICK R : R = Prior(s, dir, z)
    OBVIOUS
  <2>5. /\ \A msg \in User!Messages(buf) : msg \in Seq(R)
        /\ User!Remainder(buf) \in Seq(R)
    BY <2>2, <2>3, <2>4, ParsedScraps
  <2>6. \A entry \in Entries(dir, conn, User!Messages(buf)) : IsScrap(entry, s, dir, conn, z)
    BY <2>4, <2>5 DEF Entries, IsScrap
  <2> QED BY <2>4, <2>5, <2>6, <1>1 DEF Makes, Says, Has
<1>2. CASE dir \notin v
  <2>1. Clean(s, dir, a, kept) /\ data = SubSeq(Plain(dir)[s], a + 1, z)
    BY <1>2 DEF Has
  <2>2. Parses(buf, s, dir, conn, a, z)
    BY <2>1, Parsed
  <2> QED BY <2>2, <1>2 DEF Parses, Makes, Says, Has
<1> QED BY <1>1, <1>2

\* Nothing is after a when nothing has come.
LEMMA NothingLater ==
  ASSUME NEW s \in Sessions, NEW dir, NEW conn, NEW a \in Nat, a <= Len(Plain(dir)[s])
  PROVE  Later(s, dir, conn, a, a) = {}
<1>1. \A x \in Within(Plain(dir)[s], 0, a) :
        End(Plain(dir)[s], x) \in Nat /\ End(Plain(dir)[s], x) <= a
  <2>1. \A x \in Within(Plain(dir)[s], 0, a) :
          Begin(Plain(dir)[s], x) /\ End(Plain(dir)[s], x) <= a
    BY DEF Within
  <2> QED BY <2>1, BeginFacts, PlainIsWellFormed
<1> QED BY <1>1 DEF Later

\* An empty buffer is clean where a message begins.
LEMMA EmptyIsClean ==
  ASSUME NEW s \in Sessions, NEW dir, NEW a \in Nat, a <= Len(Plain(dir)[s]),
         Boundary(Plain(dir)[s], a), PrefacePassed(s, dir, a)
  PROVE  Clean(s, dir, a, <<>>)
<1>1. Plain(dir)[s] \in Seq(SetOf(Plain(dir)[s]))
  BY PlainIsWellFormed DEF WellFormed
<1>2. SubSeq(Plain(dir)[s], a + 1, a) = <<>>
  BY <1>1
<1> QED BY <1>2 DEF Clean

-----------------------------------------------------------------------------
(* The preface.                                                             *)

\* The first unit begins a message.
LEMMA StartIsBoundary ==
  ASSUME NEW s \in Sessions, NEW dir
  PROVE  Boundary(Plain(dir)[s], 0)
<1> PICK P : P = Plain(dir)[s]
  OBVIOUS
<1>1. WellFormed(P) /\ Len(P) \in Nat
  BY PlainIsWellFormed DEF WellFormed
<1>2. CASE 1 \in 1 .. Len(P)
  <2>1. P[1].i \in 1 .. P[1].need /\ P[1].need \in Nat /\ 1 - P[1].i \in 0 .. Len(P) - P[1].need
    BY <1>1, <1>2 DEF WellFormed, Before
  <2>2. P[1].i = 1
    BY <2>1, <1>1
  <2> QED BY <2>2, <1>1, <1>2 DEF Boundary, Begin
<1>3. CASE 1 \notin 1 .. Len(P)
  BY <1>1, <1>3 DEF Boundary
<1> QED BY <1>2, <1>3

\* A plaintext has the preface as its first two units, or has none.
PrefaceFirst(s) ==
  /\ Len(In[s]) >= 2 /\ \A j \in 1 .. 2 : In[s][j].m = 0 /\ In[s][j].i = j
  /\ Boundary(In[s], 2) /\ PrefacePassed(s, "recv", 2)

LEMMA PrefaceOrNot ==
  ASSUME NEW s \in Sessions
  PROVE  PrefaceFirst(s) \/ PrefacePassed(s, "recv", 0)
<1> PICK P : P = In[s]
  OBVIOUS
<1>1. WellFormed(P) /\ Len(P) \in Nat
  BY PlaintextAssumption DEF WellFormed
<1>2. \A j \in 1 .. Len(P) : P[j].m = 0 => j - P[j].i = 0 /\ P[j].need = 2
  BY PlaintextAssumption DEF Before, User!Preface
<1>3. CASE \E k \in 1 .. Len(P) : P[k].m = 0
  <2>1. PICK k \in 1 .. Len(P) : P[k].m = 0
    BY <1>3
  <2>2. Before(P, k) = 0 /\ P[k].need = 2
    BY <2>1, <1>2 DEF Before
  <2>3. \A j \in 1 .. Len(P) : P[j].m = 0 <=> j \in 1 .. 2
    <3>1. \A j \in 1 .. Len(P) : P[j].m = P[k].m <=> j \in 0 + 1 .. 0 + 2
      BY <1>1, <2>1, <2>2 DEF WellFormed
    <3> QED BY <3>1, <2>1
  <2>4. Len(P) >= 2
    <3>1. Before(P, k) \in 0 .. Len(P) - P[k].need
      BY <1>1, <2>1 DEF WellFormed
    <3> QED BY <3>1, <2>2, <1>1
  <2>5. \A j \in 1 .. 2 : j \in 1 .. Len(P) /\ P[j].m = 0
    BY <2>3, <2>4, <1>1
  <2>6. \A j \in 1 .. 2 : P[j].i = j
    <3> TAKE j \in 1 .. 2
    <3>1. j \in 1 .. Len(P) /\ P[j].m = 0
      BY <2>5
    <3>2. j - P[j].i = 0 /\ P[j].i \in 1 .. P[j].need /\ P[j].need = 2
      BY <3>1, <1>2, <1>1 DEF WellFormed
    <3> QED BY <3>2
  <2>7. Boundary(P, 2)
    <3>1. Begin(P, 0)
      BY <2>4, <2>6, <1>1 DEF Begin
    <3>2. P[1].need = 2
      BY <2>5, <1>2
    <3>3. End(P, 0) = 2
      BY <3>2 DEF End
    <3>4. Boundary(P, End(P, 0))
      BY <3>1, <1>1, EndIsBoundary
    <3> QED BY <3>3, <3>4
  <2>8. PrefacePassed(s, "recv", 2)
    <3>1. \A j \in 3 .. Len(P) : P[j].m # 0
      BY <2>3, <1>1
    <3> QED BY <3>1 DEF PrefacePassed, Plain
  <2> QED BY <2>4, <2>5, <2>6, <2>7, <2>8 DEF PrefaceFirst
<1>4. CASE ~\E k \in 1 .. Len(P) : P[k].m = 0
  BY <1>4 DEF PrefacePassed, Plain
<1> QED BY <1>3, <1>4

-----------------------------------------------------------------------------
(* What an event does to the connection c of a session s, of which the      *)
(* daemon has read up to place a[dir] in each direction.                    *)

OnlyPreface(buf) == Len(buf) < 2 /\ \A i \in 1 .. Len(buf) : User!IsPreface(buf[i], i)
Holds(c, s, a, u) ==
  /\ KeptOk(c) /\ c.proto \in {"unknown", "h1", "h2"}
  /\ c.proto # "h2" => c.poisoned = {}
  /\ c.proto = "unknown" =>
       OnlyPreface(c.recv) /\ ("recv" \notin u => c.recv = SubSeq(In[s], 1, a["recv"]))
  /\ \A dir \in Dirs :
       dir \notin c.poisoned /\ (c.proto = "unknown" /\ dir = "recv" => dir \in u) =>
         Has(s, dir, a[dir], c[dir], u)

\* The event brings direction dir of session s from place a[dir] to b[dir].
Brings(s, dir, data, a, b) ==
  /\ a \in [Dirs -> Nat] /\ b \in [Dirs -> Nat] /\ a[dir] <= b[dir]
  /\ \A d \in Dirs : b[d] <= Len(Plain(d)[s]) /\ (d # dir => b[d] = a[d])
  /\ data \in Seq(Prior(s, dir, b[dir]))
InFull(s, dir, data, a, b) == data = SubSeq(Plain(dir)[s], a[dir] + 1, b[dir])

\* What is unseen grows by the direction of the event at most.
Widened(u, v, dir) == u \subseteq v /\ v \subseteq u \cup {dir}

\* It leaves connection n and the entries N in the log.
Takes(c, n, N, s, conn, a, b, v) ==
  /\ Holds(n, s, b, v) /\ c.poisoned \subseteq n.poisoned
  /\ \A entry \in N : \E dir \in Dirs : Says(entry, s, dir, conn, b[dir], v)
  /\ n.poisoned = {} /\ "recv" \notin v =>
       Later(s, "recv", conn, a["recv"], b["recv"]) \subseteq N

\* What a feed leaves in f.
Fills(c, f, N, s, dir, conn, a, z, truncated, v) ==
  /\ DOMAIN f = Fields /\ f.h2logged = c.h2logged /\ f.proto = c.proto
  /\ f.poisoned = (IF truncated THEN c.poisoned \cup {dir} ELSE c.poisoned)
  /\ \A d \in Dirs \ {dir} : f[d] = c[d]
  /\ dir \notin f.poisoned =>
       Has(s, dir, z, f[dir], v) /\ (dir \notin v => Later(s, dir, conn, a, z) \subseteq N)
  /\ \A entry \in N : Says(entry, s, dir, conn, z, v)

LEMMA FeedFills ==
  ASSUME NEW c, DOMAIN c = Fields, NEW s \in Sessions, NEW dir \in Dirs, NEW conn,
         NEW a \in Nat, NEW z \in Nat, a <= z, z <= Len(Plain(dir)[s]), NEW v,
         dir \notin c.poisoned => Has(s, dir, a, c[dir], v),
         NEW data \in Seq(Prior(s, dir, z)), NEW truncated \in BOOLEAN,
         ~truncated /\ dir \notin v => data = SubSeq(Plain(dir)[s], a + 1, z),
         NEW N, N = Entries(dir, conn, User!Fed(c, dir, data, truncated))
  PROVE  Fills(c, User!Feed(c, dir, data, truncated), N, s, dir, conn, a, z, truncated, v)
<1>1. PICK f : f = User!Feed(c, dir, data, truncated)
  OBVIOUS
<1>2. dir \in Fields /\ Dirs \subseteq Fields /\ "poisoned" \notin Dirs /\ "h2logged" \notin Dirs
      /\ "proto" \notin Dirs
  BY FieldsAre DEF Dirs
<1>3. CASE truncated \/ dir \in c.poisoned
  <2>1. f = [c EXCEPT !.poisoned = @ \cup {dir}, ![dir] = <<>>]
    BY <1>1, <1>3 DEF User!Feed
  <2>2. /\ DOMAIN f = Fields /\ f.h2logged = c.h2logged /\ f.proto = c.proto
        /\ f.poisoned = c.poisoned \cup {dir}
        /\ \A d \in Dirs \ {dir} : f[d] = c[d]
    BY <2>1, <1>2, FieldsAre
  <2>3. N = {}
    BY <1>3 DEF User!Fed, Entries
  <2>4. f.poisoned = (IF truncated THEN c.poisoned \cup {dir} ELSE c.poisoned)
    BY <2>2, <1>3
  <2> QED BY <1>1, <2>2, <2>3, <2>4 DEF Fills
<1>4. CASE ~(truncated \/ dir \in c.poisoned)
  <2>1. f = [c EXCEPT ![dir] = User!Remainder(c[dir] \o data)]
    BY <1>1, <1>4 DEF User!Feed
  <2>2. /\ DOMAIN f = Fields /\ f.h2logged = c.h2logged /\ f.proto = c.proto
        /\ f.poisoned = c.poisoned /\ f[dir] = User!Remainder(c[dir] \o data)
        /\ \A d \in Dirs \ {dir} : f[d] = c[d]
    BY <2>1, <1>2, FieldsAre
  <2>3. N = Entries(dir, conn, User!Messages(c[dir] \o data))
    BY <1>4 DEF User!Fed
  <2>4. Makes(c[dir] \o data, s, dir, conn, a, z, v)
    <3>1. Has(s, dir, a, c[dir], v) /\ (dir \notin v => data = SubSeq(Plain(dir)[s], a + 1, z))
      BY <1>4
    <3> QED BY <3>1, Made
  <2> QED BY <1>1, <1>4, <2>2, <2>3, <2>4 DEF Fills, Makes
<1> QED BY <1>3, <1>4

LEMMA ReportedHolds ==
  ASSUME NEW f, DOMAIN f = Fields, NEW s, NEW b, NEW v, f.h2logged \in BOOLEAN,
         f.h2logged => f.poisoned # {}, f.proto = "h2",
         \A dir \in Dirs : dir \notin f.poisoned => Has(s, dir, b[dir], f[dir], v)
  PROVE  Holds(User!Reported(f), s, b, v) /\ User!Reported(f).poisoned = f.poisoned
<1>1. KeptOk(User!Reported(f))
  BY ReportedEffect
<1>2. PICK r : r = User!Reported(f)
  OBVIOUS
<1>3. r.poisoned = f.poisoned /\ r.proto = f.proto /\ \A dir \in Dirs : r[dir] = f[dir]
  BY <1>2, FieldsAre DEF User!Reported, Dirs
<1> QED BY <1>1, <1>2, <1>3 DEF Holds

\* An HTTP/2 connection is fed the event.
LEMMA HTTP2Takes ==
  ASSUME NEW c, NEW s \in Sessions, NEW conn, NEW dir \in Dirs, NEW data, NEW a, NEW b, NEW v,
         Holds(c, s, a, v), Brings(s, dir, data, a, b), c.proto = "h2",
         NEW truncated \in BOOLEAN, truncated \/ InFull(s, dir, data, a, b),
         NEW N, N = Entries(dir, conn, User!Fed(c, dir, data, truncated)),
         NEW n, n = User!Reported(User!Feed(c, dir, data, truncated))
  PROVE  Takes(c, n, N, s, conn, a, b, v)
<1>1. PICK f : f = User!Feed(c, dir, data, truncated)
  OBVIOUS
<1>2. /\ a[dir] \in Nat /\ b[dir] \in Nat /\ a[dir] <= b[dir] /\ b[dir] <= Len(Plain(dir)[s])
      /\ data \in Seq(Prior(s, dir, b[dir]))
      /\ \A d \in Dirs \ {dir} : b[d] = a[d]
  BY DEF Brings
<1>3. /\ DOMAIN c = Fields /\ KeptOk(c)
      /\ \A d \in Dirs : d \notin c.poisoned => Has(s, d, a[d], c[d], v)
  BY DEF Holds, KeptOk
<1>4. Fills(c, f, N, s, dir, conn, a[dir], b[dir], truncated, v)
  <2>1. ~truncated /\ dir \notin v => data = SubSeq(Plain(dir)[s], a[dir] + 1, b[dir])
    BY DEF InFull
  <2>2. dir \notin c.poisoned => Has(s, dir, a[dir], c[dir], v)
    BY <1>3
  <2> QED BY <2>1, <2>2, <1>1, <1>2, <1>3, FeedFills
<1>5. c.poisoned \subseteq f.poisoned
  BY <1>4 DEF Fills
<1>6. \A d \in Dirs : d \notin f.poisoned => Has(s, d, b[d], f[d], v)
  <2> TAKE d \in Dirs
  <2>1. CASE d = dir
    BY <2>1, <1>4 DEF Fills
  <2>2. CASE d # dir
    BY <2>2, <1>2, <1>3, <1>4, <1>5 DEF Fills
  <2> QED BY <2>1, <2>2
<1>7. /\ f.h2logged \in BOOLEAN /\ (f.h2logged => f.poisoned # {}) /\ f.proto = "h2"
      /\ DOMAIN f = Fields
  BY <1>3, <1>4, <1>5 DEF Fills, KeptOk
<1>8. Holds(n, s, b, v) /\ n.poisoned = f.poisoned
  BY <1>1, <1>6, <1>7, ReportedHolds
<1>9. \A entry \in N : \E d \in Dirs : Says(entry, s, d, conn, b[d], v)
  BY <1>4 DEF Fills
<1>10. ASSUME n.poisoned = {}, "recv" \notin v
       PROVE  Later(s, "recv", conn, a["recv"], b["recv"]) \subseteq N
  <2>1. CASE dir = "recv"
    BY <2>1, <1>4, <1>8, <1>10 DEF Fills
  <2>2. CASE dir # "recv"
    <3>1. "recv" \in Dirs
      BY DEF Dirs
    <3>2. a["recv"] \in Nat /\ a["recv"] = b["recv"] /\ a["recv"] <= Len(Plain("recv")[s])
      BY <3>1, <2>2 DEF Brings
    <3> QED BY <3>2, NothingLater
  <2> QED BY <2>1, <2>2
<1> QED BY <1>5, <1>8, <1>9, <1>10 DEF Takes

\* Whatever is kept was read.
LEMMA HoldsScraps ==
  ASSUME NEW c, NEW s \in Sessions, NEW a, NEW u, Holds(c, s, a, u), c.poisoned = {},
         NEW dir \in Dirs, a[dir] \in Nat, a[dir] <= Len(Plain(dir)[s])
  PROVE  c[dir] \in Seq(Prior(s, dir, a[dir]))
<1>1. CASE c.proto = "unknown" /\ dir = "recv" /\ dir \notin u
  <2>1. c.recv = SubSeq(In[s], 1, a["recv"]) /\ Plain(dir)[s] = In[s]
    BY <1>1 DEF Holds, Plain
  <2>2. PICK z \in Nat : z = a[dir]
    OBVIOUS
  <2>3. 0 \in 0 .. z /\ z \in 0 .. z /\ 0 + 1 = 1
    OBVIOUS
  <2>4. SubSeq(Plain(dir)[s], 0 + 1, z) \in Seq(Prior(s, dir, z))
    BY <2>2, <2>3, PriorUnits
  <2> QED BY <2>1, <2>2, <2>3, <2>4, <1>1
<1>2. CASE ~(c.proto = "unknown" /\ dir = "recv" /\ dir \notin u)
  <2>1. Has(s, dir, a[dir], c[dir], u)
    BY <1>2 DEF Holds
  <2> QED BY <2>1, CleanIsScraps
<1> QED BY <1>1, <1>2

\* An event that is first written to its buffer.
Writes(c, n, s, dir, data, a, b, v) ==
  /\ DOMAIN n = Fields /\ KeptOk(n) /\ n.proto = c.proto /\ n.poisoned = {} /\ c.poisoned = {}
  /\ n.h2logged = c.h2logged /\ n[dir] = c[dir] \o data
  /\ \A d \in Dirs \ {dir} : n[d] = c[d] /\ b[d] = a[d]
  /\ a[dir] \in Nat /\ b[dir] \in Nat /\ a[dir] <= b[dir] /\ b[dir] <= Len(Plain(dir)[s])
  /\ data \in Seq(Prior(s, dir, b[dir]))
  /\ dir \notin v => data = SubSeq(Plain(dir)[s], a[dir] + 1, b[dir])
  /\ \A d \in Dirs : a[d] \in Nat /\ b[d] \in Nat /\ a[d] <= Len(Plain(d)[s])
  /\ \A d \in Dirs : c[d] \in Seq(Prior(s, d, a[d])) /\ n[d] \in Seq(Prior(s, d, b[d]))
  /\ c.proto = "unknown" /\ "recv" \notin v => n.recv = SubSeq(In[s], 1, b["recv"])

LEMMA BufferWrites ==
  ASSUME NEW c, NEW s \in Sessions, NEW dir \in Dirs, NEW data, NEW a, NEW b, NEW u, NEW v,
         Holds(c, s, a, u), Brings(s, dir, data, a, b), Widened(u, v, dir),
         dir \in v \/ InFull(s, dir, data, a, b), c.proto # "h2",
         NEW n, n = [c EXCEPT ![dir] = @ \o data]
  PROVE  Writes(c, n, s, dir, data, a, b, v)
<1>1. dir \in Fields /\ Dirs \subseteq Fields /\ "poisoned" \notin Dirs /\ "h2logged" \notin Dirs
      /\ "proto" \notin Dirs /\ DOMAIN c = Fields /\ KeptOk(c) /\ c.poisoned = {}
  BY FieldsAre DEF Dirs, Holds, KeptOk
<1>2. /\ DOMAIN n = Fields /\ n.proto = c.proto /\ n.poisoned = {} /\ n.h2logged = c.h2logged
      /\ n[dir] = c[dir] \o data /\ \A d \in Dirs \ {dir} : n[d] = c[d]
  BY <1>1, FieldsAre
<1>3. KeptOk(n)
  BY <1>1, <1>2 DEF KeptOk
<1>4. /\ a[dir] \in Nat /\ b[dir] \in Nat /\ a[dir] <= b[dir] /\ b[dir] <= Len(Plain(dir)[s])
      /\ data \in Seq(Prior(s, dir, b[dir]))
      /\ \A d \in Dirs \ {dir} : b[d] = a[d]
      /\ \A d \in Dirs : a[d] \in Nat /\ b[d] \in Nat
  BY DEF Brings
<1>a. dir \notin v => data = SubSeq(Plain(dir)[s], a[dir] + 1, b[dir])
  BY DEF InFull
<1>5. \A d \in Dirs : a[d] <= Len(Plain(d)[s])
  <2>1. \A d \in Dirs : b[d] <= Len(Plain(d)[s]) /\ (d # dir => b[d] = a[d])
    BY DEF Brings
  <2>2. \A d \in Dirs : Len(Plain(d)[s]) \in Nat
    BY PlainIsWellFormed DEF WellFormed
  <2> QED BY <2>1, <2>2, <1>4, SMTT(20)
<1>6. ASSUME c.proto = "unknown", "recv" \notin v PROVE n.recv = SubSeq(In[s], 1, b["recv"])
  <2>1. c.recv = SubSeq(In[s], 1, a["recv"]) /\ "recv" \in Dirs
    BY <1>6 DEF Holds, Dirs, Widened
  <2>2. CASE dir = "recv"
    <3>1. WellFormed(In[s]) /\ Plain("recv")[s] = In[s]
      BY PlaintextAssumption DEF Plain
    <3>2. data = SubSeq(In[s], a["recv"] + 1, b["recv"]) /\ b["recv"] <= Len(In[s])
      BY <1>4, <1>6, <1>a, <2>2, <3>1
    <3>3. SubSeq(In[s], 0 + 1, a["recv"]) \o SubSeq(In[s], a["recv"] + 1, b["recv"])
            = SubSeq(In[s], 0 + 1, b["recv"])
      <4>1. 0 \in Nat /\ a["recv"] \in Nat /\ b["recv"] \in Nat /\ 0 <= a["recv"]
            /\ a["recv"] <= b["recv"]
        BY <1>4, <2>2
      <4> QED BY <4>1, <3>1, <3>2, Joined
    <3>4. n.recv = c.recv \o data
      BY <2>2, <1>2
    <3>5. 0 + 1 = 1
      OBVIOUS
    <3> QED BY <3>2, <3>3, <3>4, <3>5, <2>1
  <2>3. CASE dir # "recv"
    BY <2>1, <2>3, <1>2, <1>4
  <2> QED BY <2>2, <2>3
<1>7. \A d \in Dirs : c[d] \in Seq(Prior(s, d, a[d]))
  BY <1>1, <1>4, <1>5, HoldsScraps
<1>8. \A d \in Dirs : n[d] \in Seq(Prior(s, d, b[d]))
  <2> TAKE d \in Dirs
  <2>1. CASE d = dir
    <3>1. c[dir] \o data \in Seq(Prior(s, dir, b[dir]))
      BY <1>4, <1>7, PriorJoined
    <3> QED BY <3>1, <2>1, <1>2
  <2>2. CASE d # dir
    BY <2>2, <1>2, <1>4, <1>7
  <2> QED BY <2>1, <2>2
<1> QED BY <1>1, <1>2, <1>3, <1>4, <1>5, <1>6, <1>7, <1>8, <1>a DEF Writes

LEMMA CleanGrows ==
  ASSUME NEW s \in Sessions, NEW dir, NEW a \in Nat, NEW z \in Nat, a <= z,
         z <= Len(Plain(dir)[s]), NEW kept, Clean(s, dir, a, kept), NEW data,
         data = SubSeq(Plain(dir)[s], a + 1, z)
  PROVE  Clean(s, dir, z, kept \o data)
<1>1. PICK b \in 0 .. a : /\ Boundary(Plain(dir)[s], b) /\ PrefacePassed(s, dir, b)
                          /\ kept = SubSeq(Plain(dir)[s], b + 1, a)
  BY DEF Clean
<1>2. b \in Nat /\ b <= a /\ b \in 0 .. z /\ WellFormed(Plain(dir)[s])
  BY PlainIsWellFormed
<1>3. kept \o data = SubSeq(Plain(dir)[s], b + 1, z)
  BY <1>1, <1>2, Joined
<1> QED BY <1>1, <1>2, <1>3 DEF Clean

\* The first units of the requests, as they are in the buffer.
LEMMA Prefix ==
  ASSUME NEW s \in Sessions, NEW z \in Nat, z <= Len(In[s]), NEW buf, buf = SubSeq(In[s], 1, z)
  PROVE  Len(buf) = z /\ \A i \in 1 .. z : buf[i] = In[s][i] /\ i \in 1 .. Len(In[s])
<1>1. In[s] \in Seq(SetOf(In[s]))
  BY PlaintextAssumption DEF WellFormed
<1> QED BY <1>1

\* An undecided connection keeps the event.
LEMMA UndecidedTakes ==
  ASSUME NEW c, NEW s \in Sessions, NEW conn, NEW dir \in Dirs, NEW data, NEW a, NEW b,
         NEW u, NEW v, Holds(c, s, a, u), Brings(s, dir, data, a, b), Widened(u, v, dir),
         dir \in v \/ InFull(s, dir, data, a, b), c.proto = "unknown",
         NEW n, n = [c EXCEPT ![dir] = @ \o data], User!DetectProto(n.recv) = "unknown"
  PROVE  Takes(c, n, {}, s, conn, a, b, v)
<1>1. Writes(c, n, s, dir, data, a, b, v)
  BY BufferWrites
<1>2. OnlyPreface(n.recv)
  BY DEF User!DetectProto, User!Preface, OnlyPreface
<1>3. "recv" \in Dirs /\ "send" \in Dirs /\ \A d \in Dirs : d = "recv" \/ d = "send"
  BY DEF Dirs
<1>4. ASSUME "send" \notin v PROVE Clean(s, "send", b["send"], n["send"])
  <2>1. Clean(s, "send", a["send"], c["send"])
    BY <1>3, <1>4, <1>1 DEF Holds, Has, Writes, Widened
  <2>2. CASE dir = "send"
    <3>1. /\ a["send"] \in Nat /\ b["send"] \in Nat /\ a["send"] <= b["send"]
          /\ b["send"] <= Len(Plain("send")[s])
          /\ data = SubSeq(Plain("send")[s], a["send"] + 1, b["send"])
          /\ n["send"] = c["send"] \o data
      BY <2>2, <1>1, <1>4 DEF Writes
    <3> QED BY <3>1, <2>1, CleanGrows
  <2>3. CASE dir # "send"
    BY <2>1, <2>3, <1>1, <1>3 DEF Writes
  <2> QED BY <2>2, <2>3
<1>5. Holds(n, s, b, v)
  <2>1. \A d \in Dirs : (d = "recv" => d \in v) => Has(s, d, b[d], n[d], v)
    BY <1>1, <1>3, <1>4 DEF Has, Writes
  <2> QED BY <2>1, <1>1, <1>2 DEF Holds, Writes
<1>6. ASSUME "recv" \notin v PROVE Later(s, "recv", conn, a["recv"], b["recv"]) = {}
  <2>1. b["recv"] \in Nat /\ b["recv"] <= Len(In[s]) /\ n.recv = SubSeq(In[s], 1, b["recv"])
    BY <1>1, <1>3, <1>6 DEF Writes, Brings, Plain
  <2>2. Len(n.recv) = b["recv"] /\ \A i \in 1 .. b["recv"] : n.recv[i] = In[s][i]
    BY <2>1, Prefix
  <2>3. \A i \in 1 .. b["recv"] : In[s][i].m = 0
    BY <2>2, <1>2 DEF OnlyPreface, User!IsPreface
  <2>4. ASSUME NEW x \in Within(Plain("recv")[s], 0, b["recv"]) PROVE In[s][x + 1].m = 0
    <3>1. Begin(Plain("recv")[s], x) /\ End(Plain("recv")[s], x) <= b["recv"]
      BY <2>4 DEF Within
    <3>2. /\ x \in Nat /\ End(Plain("recv")[s], x) \in x + 1 .. Len(Plain("recv")[s])
          /\ Len(Plain("recv")[s]) \in Nat
      BY <3>1, PlainIsWellFormed, BeginFacts
    <3>3. x + 1 \in 1 .. b["recv"]
      BY <3>1, <3>2, <2>1
    <3> QED BY <3>3, <2>3
  <2> QED BY <2>4 DEF Later, Plain
<1> QED BY <1>1, <1>5, <1>6 DEF Takes, Writes

\* What the first units of a connection tell.
Decided(s, buf) ==
  /\ User!DetectProto(buf) = "h1" => PrefacePassed(s, "recv", 0)
  /\ User!DetectProto(buf) = "h2" => PrefaceFirst(s) /\ Len(buf) >= 2

LEMMA Decides ==
  ASSUME NEW s \in Sessions, NEW z \in Nat, z <= Len(In[s]), NEW buf, buf = SubSeq(In[s], 1, z)
  PROVE  Decided(s, buf)
<1>1. Len(buf) = z /\ \A i \in 1 .. z : buf[i] = In[s][i] /\ i \in 1 .. Len(In[s])
  BY Prefix
<1>2. ASSUME PrefaceFirst(s), User!DetectProto(buf) = "h1" PROVE FALSE
  <2>1. \A i \in 1 .. 2 : In[s][i].m = 0 /\ In[s][i].i = i
    BY <1>2 DEF PrefaceFirst
  <2>2. CASE z >= 2
    <3>1. \A i \in 1 .. 2 : User!IsPreface(buf[i], i)
      BY <2>1, <2>2, <1>1 DEF User!IsPreface
    <3> QED BY <3>1, <2>2, <1>1, <1>2 DEF User!DetectProto, User!Preface
  <2>3. CASE ~(z >= 2)
    <3>1. \A i \in 1 .. Len(buf) : User!IsPreface(buf[i], i)
      BY <2>1, <2>3, <1>1 DEF User!IsPreface
    <3> QED BY <3>1, <2>3, <1>1, <1>2 DEF User!DetectProto, User!Preface
  <2> QED BY <2>2, <2>3
<1>3. ASSUME User!DetectProto(buf) = "h2" PROVE PrefaceFirst(s) /\ Len(buf) >= 2
  <2>1. z >= 2 /\ User!IsPreface(buf[1], 1)
    BY <1>1, <1>3 DEF User!DetectProto, User!Preface
  <2>2. 1 \in 1 .. Len(In[s]) /\ In[s][1].m = 0
    BY <2>1, <1>1 DEF User!IsPreface
  <2>3. ~PrefacePassed(s, "recv", 0)
    BY <2>2 DEF PrefacePassed, Plain
  <2> QED BY <2>1, <2>3, <1>1, PrefaceOrNot
<1> QED BY <1>2, <1>3, PrefaceOrNot DEF Decided

\* Before the protocol is known an event that decides it brings requests.
ByRequests(s, dir, buf, v) ==
  User!DetectProto(buf) # "unknown" => dir = "recv" /\ ("recv" \notin v => Decided(s, buf))

LEMMA DecidedByRequests ==
  ASSUME NEW c, NEW s \in Sessions, NEW dir \in Dirs, NEW data, NEW a, NEW b, NEW u, NEW v,
         Holds(c, s, a, u), c.proto = "unknown",
         NEW n, Writes(c, n, s, dir, data, a, b, v)
  PROVE  ByRequests(s, dir, n.recv, v)
<1>1. b["recv"] \in Nat /\ ("recv" \notin v => n.recv = SubSeq(In[s], 1, b["recv"]))
      /\ n.recv \in Seq(Prior(s, "recv", b["recv"]))
  BY DEF Writes, Dirs
<1>2. b["recv"] <= Len(In[s])
  <2>1. b["recv"] <= Len(Plain("recv")[s])
    BY DEF Writes, Dirs
  <2> QED BY <2>1 DEF Plain
<1>3. ASSUME dir # "recv" PROVE User!DetectProto(n.recv) = "unknown"
  <2>1. n.recv = c.recv /\ OnlyPreface(c.recv)
    BY <1>3 DEF Writes, Holds, Dirs
  <2>2. Len(n.recv) \in Nat
    BY <1>1
  <2> QED BY <2>1, <2>2 DEF User!DetectProto, User!Preface, OnlyPreface
<1>4. "recv" \notin v => Decided(s, n.recv)
  BY <1>1, <1>2, Decides
<1> QED BY <1>3, <1>4 DEF ByRequests

LEMMA Zero ==
  ASSUME NEW k \in Nat
  PROVE  0 + 1 = 1 /\ 0 \in 0 .. k
OBVIOUS

\* HTTP/1.1 parses the buffer of the event's direction.
IsHTTP1(c, n) ==
  c.proto = "h1" \/ (c.proto = "unknown" /\ User!DetectProto(n.recv) = "h1")

LEMMA HTTP1Takes ==
  ASSUME NEW c, NEW s \in Sessions, NEW conn, NEW dir \in Dirs, NEW data, NEW a, NEW b,
         NEW u, NEW v, NEW n, NEW f, NEW N, Holds(c, s, a, u), Brings(s, dir, data, a, b),
         Widened(u, v, dir), dir \in v \/ InFull(s, dir, data, a, b),
         n = [c EXCEPT ![dir] = @ \o data], IsHTTP1(c, n),
         f = [n EXCEPT !.proto = "h1", ![dir] = User!Remainder(n[dir])],
         N = Entries(dir, conn, User!Messages(n[dir]))
  PROVE  Takes(c, f, N, s, conn, a, b, v)
<1>a. c.proto = "h1" \/ (c.proto = "unknown" /\ User!DetectProto(n.recv) = "h1")
  BY DEF IsHTTP1
<1>1. Writes(c, n, s, dir, data, a, b, v)
  BY <1>a, BufferWrites
<1>b. c.proto = "unknown" => dir = "recv" /\ (dir \notin v => PrefacePassed(s, "recv", 0))
  <2>1. ASSUME c.proto = "unknown" PROVE ByRequests(s, dir, n.recv, v)
    BY <2>1, <1>1, DecidedByRequests
  <2> QED BY <2>1, <1>a DEF ByRequests, Decided
<1>2. Has(s, dir, a[dir], c[dir], v)
  <2>1. CASE dir \in v
    BY <2>1, <1>1 DEF Has, Writes
  <2>2. CASE c.proto = "h1" /\ dir \notin v
    BY <2>2, <1>1 DEF Holds, Writes, Has, Widened
  <2>3. CASE c.proto = "unknown" /\ dir \notin v
    <3>1. dir = "recv" /\ PrefacePassed(s, "recv", 0)
      BY <2>3, <1>b
    <3>2. c.recv = SubSeq(In[s], 0 + 1, a["recv"]) /\ 0 \in 0 .. a["recv"]
      <4>1. c.recv = SubSeq(In[s], 1, a["recv"]) /\ a["recv"] \in Nat
        BY <2>3, <3>1, <1>1 DEF Holds, Writes, Dirs, Widened
      <4>2. 0 + 1 = 1 /\ 0 \in 0 .. a["recv"]
        BY <4>1, Zero
      <4> QED BY <4>1, <4>2
    <3>3. Boundary(Plain("recv")[s], 0)
      BY StartIsBoundary
    <3>4. Clean(s, "recv", a["recv"], c.recv)
      BY <3>1, <3>2, <3>3 DEF Clean, Plain
    <3> QED BY <3>1, <3>4, <2>3 DEF Has
  <2> QED BY <2>1, <2>2, <2>3, <1>a
<1>3. Makes(n[dir], s, dir, conn, a[dir], b[dir], v)
  <2>1. /\ a[dir] \in Nat /\ b[dir] \in Nat /\ a[dir] <= b[dir]
        /\ b[dir] <= Len(Plain(dir)[s])
        /\ data \in Seq(Prior(s, dir, b[dir]))
        /\ dir \notin v => data = SubSeq(Plain(dir)[s], a[dir] + 1, b[dir])
        /\ n[dir] = c[dir] \o data
    BY <1>1 DEF Writes
  <2> QED BY <2>1, <1>2, Made
<1>4. /\ DOMAIN f = Fields /\ f.proto = "h1" /\ f.poisoned = {} /\ f.h2logged = n.h2logged
      /\ f[dir] = User!Remainder(n[dir]) /\ \A d \in Dirs \ {dir} : f[d] = c[d] /\ b[d] = a[d]
  BY <1>1, FieldsAre DEF Writes, Dirs
<1>5. KeptOk(f)
  BY <1>1, <1>4 DEF Writes, KeptOk
<1>6. \A d \in Dirs : Has(s, d, b[d], f[d], v)
  <2> TAKE d \in Dirs
  <2>1. CASE d = dir
    BY <2>1, <1>3, <1>4 DEF Makes
  <2>2. CASE d # dir
    <3>1. d \notin c.poisoned /\ (c.proto = "unknown" => d # "recv") /\ (d \in u <=> d \in v)
      BY <2>2, <1>b, <1>1 DEF Writes, Widened
    <3>2. Has(s, d, a[d], c[d], u)
      BY <3>1 DEF Holds
    <3> QED BY <3>1, <3>2, <2>2, <1>4 DEF Has
  <2> QED BY <2>1, <2>2
<1>7. Holds(f, s, b, v)
  BY <1>4, <1>5, <1>6 DEF Holds
<1>8. "recv" \notin v => Later(s, "recv", conn, a["recv"], b["recv"]) \subseteq N
  <2>1. CASE dir = "recv"
    BY <2>1, <1>3 DEF Makes
  <2>2. CASE dir # "recv"
    <3>1. a["recv"] \in Nat /\ a["recv"] <= Len(Plain("recv")[s]) /\ b["recv"] = a["recv"]
      BY <2>2, <1>1 DEF Writes, Dirs
    <3> QED BY <3>1, NothingLater
  <2> QED BY <2>1, <2>2
<1>9. c.poisoned = {}
  BY <1>1 DEF Writes
<1> QED BY <1>3, <1>7, <1>8, <1>9 DEF Takes, Makes

\* What follows the preface in the buffer.
LEMMA AfterPreface ==
  ASSUME NEW s \in Sessions, NEW z \in Nat, 2 <= z, z <= Len(In[s]), NEW buf,
         buf = SubSeq(In[s], 1, z)
  PROVE  SubSeq(buf, User!Preface + 1, Len(buf)) = SubSeq(In[s], 2 + 1, z)
<1>1. In[s] \in Seq(SetOf(In[s]))
  BY PlaintextAssumption DEF WellFormed
<1>2. Len(buf) = z
  BY <1>1
<1>3. SubSeq(SubSeq(In[s], 1, z), 3, z) = SubSeq(In[s], 3, z)
  BY <1>1
<1> QED BY <1>2, <1>3 DEF User!Preface

LEMMA NothingBefore ==
  ASSUME NEW s \in Sessions, NEW dir, NEW a \in Nat, NEW z \in Nat, a <= z,
         z <= Len(Plain(dir)[s]), NEW part, part = SubSeq(Plain(dir)[s], a + 1, z)
  PROVE  <<>> \o part = part
<1>1. Plain(dir)[s] \in Seq(SetOf(Plain(dir)[s]))
  BY PlainIsWellFormed DEF WellFormed
<1>2. part \in Seq(SetOf(Plain(dir)[s]))
  BY <1>1
<1> QED BY <1>2

LEMMA BeginsWithPreface ==
  ASSUME NEW s \in Sessions, PrefaceFirst(s), NEW P, P = In[s]
  PROVE  Boundary(P, 2) /\ PrefacePassed(s, "recv", 2) /\ 2 <= Len(P)
<1>1. Len(P) \in Nat
  BY PlaintextAssumption DEF WellFormed
<1> QED BY <1>1 DEF PrefaceFirst

LEMMA Reaches ==
  ASSUME NEW s \in Sessions, NEW dir, NEW z \in Nat, z <= Len(Plain(dir)[s]), NEW w \in 0 .. z
  PROVE  w \in Nat /\ w <= z /\ w <= Len(Plain(dir)[s])
<1>1. Len(Plain(dir)[s]) \in Nat
  BY PlainIsWellFormed DEF WellFormed
<1> QED BY <1>1

\* Every request is after the preface.
LEMMA LaterThanPreface ==
  ASSUME NEW s \in Sessions, PrefaceFirst(s), NEW conn, NEW a, NEW z
  PROVE  Later(s, "recv", conn, a, z) \subseteq Later(s, "recv", conn, 2, z)
<1>1. WellFormed(In[s]) /\ Plain("recv")[s] = In[s]
  BY PlaintextAssumption DEF Plain
<1>2. ASSUME NEW p \in Within(In[s], 0, z), In[s][p + 1].m # 0 PROVE End(In[s], p) > 2
  <2>1. Begin(In[s], p)
    BY <1>2 DEF Within
  <2>2. p \in 0 .. Len(In[s]) - 1 /\ End(In[s], p) \in p + 1 .. Len(In[s]) /\ Len(In[s]) \in Nat
    BY <2>1, <1>1, BeginFacts
  <2>3. p + 1 \notin 1 .. 2
    BY <1>2 DEF PrefaceFirst
  <2> QED BY <2>2, <2>3
<1> QED BY <1>1, <1>2 DEF Later

LEMMA BothFilled ==
  ASSUME NEW f, DOMAIN f = Fields, f.h2logged \in BOOLEAN, ~f.h2logged,
         f.proto = "h2", f.poisoned = {},
         NEW s, NEW b, NEW v, Has(s, "recv", b["recv"], f["recv"], v),
         Has(s, "send", b["send"], f["send"], v)
  PROVE  Holds(User!Reported(f), s, b, v) /\ User!Reported(f).poisoned = {}
<1>1. \A dir \in Dirs : dir \notin f.poisoned => Has(s, dir, b[dir], f[dir], v)
  BY DEF Dirs
<1>2. f.h2logged \in BOOLEAN /\ (f.h2logged => f.poisoned # {})
  OBVIOUS
<1>a. DOMAIN f = Fields /\ f.proto = "h2"
  OBVIOUS
<1>3. Holds(User!Reported(f), s, b, v) /\ User!Reported(f).poisoned = f.poisoned
  BY ONLY <1>1, <1>2, <1>a, ReportedHolds
<1> QED BY <1>3

\* The preface has come: the rest of the requests and the responses are parsed.
Becomes(n, h, rest, g, f, N, conn) ==
  /\ h = [n EXCEPT !.proto = "h2", !.recv = <<>>, !.send = <<>>]
  /\ rest = SubSeq(n.recv, User!Preface + 1, Len(n.recv))
  /\ g = User!Feed(h, "recv", rest, FALSE)
  /\ f = User!Feed(g, "send", n.send, FALSE)
  /\ N = Entries("recv", conn, User!Messages(rest))
         \cup Entries("send", conn, User!Messages(n.send))

\* An empty buffer that a feed begins with: where a message begins, or anywhere.
LEMMA EmptyHas ==
  ASSUME NEW s \in Sessions, NEW dir, NEW a \in Nat, a <= Len(Plain(dir)[s]), NEW v,
         dir \notin v => Boundary(Plain(dir)[s], a) /\ PrefacePassed(s, dir, a)
  PROVE  Has(s, dir, a, <<>>, v)
<1>1. CASE dir \in v
  BY <1>1 DEF Has
<1>2. CASE dir \notin v
  BY <1>2, EmptyIsClean DEF Has
<1> QED BY <1>1, <1>2

\* Where the piece that is fed next begins.
Piecewise(s, dir, w, z, part, v) ==
  /\ w \in Nat /\ w <= z /\ w <= Len(Plain(dir)[s]) /\ Has(s, dir, w, <<>>, v)
  /\ dir \notin v => part = SubSeq(Plain(dir)[s], w + 1, z)

LEMMA BecomesTakes ==
  ASSUME NEW c, NEW s \in Sessions, NEW conn, NEW dir \in Dirs, NEW data, NEW a, NEW b,
         NEW u, NEW v, NEW n, NEW h, NEW rest, NEW g, NEW f, NEW N,
         Holds(c, s, a, u), Brings(s, dir, data, a, b), Widened(u, v, dir),
         dir \in v \/ InFull(s, dir, data, a, b), c.proto = "unknown",
         n = [c EXCEPT ![dir] = @ \o data], User!DetectProto(n.recv) = "h2",
         Becomes(n, h, rest, g, f, N, conn)
  PROVE  Takes(c, User!Reported(f), N, s, conn, a, b, v)
<1>1. Writes(c, n, s, dir, data, a, b, v)
  BY BufferWrites
<1>z. /\ h = [n EXCEPT !.proto = "h2", !.recv = <<>>, !.send = <<>>]
      /\ rest = SubSeq(n.recv, User!Preface + 1, Len(n.recv))
      /\ g = User!Feed(h, "recv", rest, FALSE)
      /\ f = User!Feed(g, "send", n.send, FALSE)
      /\ N = Entries("recv", conn, User!Messages(rest))
             \cup Entries("send", conn, User!Messages(n.send))
  BY DEF Becomes
<1>a. "recv" \in Dirs /\ "send" \in Dirs /\ \A d \in Dirs : d = "recv" \/ d = "send"
  BY DEF Dirs
<1>2. dir = "recv" /\ ("recv" \notin v => PrefaceFirst(s) /\ Len(n.recv) >= 2)
  <2>1. ByRequests(s, dir, n.recv, v)
    BY <1>1, DecidedByRequests
  <2> QED BY <2>1 DEF ByRequests, Decided
<1>b. PICK x \in Nat, z \in Nat, y \in Nat :
        x = a["recv"] /\ z = b["recv"] /\ y = b["send"] /\ x <= z
  BY <1>1, <1>2, <1>a DEF Writes
<1>3. /\ z <= Len(Plain("recv")[s]) /\ y <= Len(Plain("send")[s])
      /\ n.recv \in Seq(Prior(s, "recv", z)) /\ n.send \in Seq(Prior(s, "send", y))
      /\ "recv" \notin v => n.recv = SubSeq(In[s], 1, z)
      /\ n.send = c.send /\ y = a["send"]
  BY <1>b, <1>1, <1>2, <1>a DEF Writes
<1>4. WellFormed(Plain("recv")[s]) /\ Plain("recv")[s] = In[s]
  BY PlaintextAssumption DEF Plain
<1>5. PICK k \in Nat : Piecewise(s, "recv", k, z, rest, v) /\ ("recv" \notin v => k = 2)
  <2>1. CASE "recv" \in v
    <3>1. 0 \in Nat /\ 0 <= z /\ 0 <= Len(Plain("recv")[s])
      BY <1>3
    <3>2. Has(s, "recv", 0, <<>>, v)
      BY <3>1, <2>1, EmptyHas
    <3> QED BY <3>1, <3>2, <2>1 DEF Piecewise
  <2>2. CASE "recv" \notin v
    <3>1. z <= Len(In[s]) /\ n.recv = SubSeq(In[s], 1, z) /\ PrefaceFirst(s)
      BY <2>2, <1>2, <1>3, <1>4
    <3>2. Len(n.recv) = z /\ 2 <= z
      <4>1. Len(n.recv) = z
        BY <3>1, Prefix
      <4> QED BY <4>1, <1>2, <2>2
    <3>3. rest = SubSeq(Plain("recv")[s], 2 + 1, z)
      BY <3>1, <3>2, <1>z, <1>4, AfterPreface, ZenonT(60)
    <3>4. /\ Boundary(Plain("recv")[s], 2) /\ PrefacePassed(s, "recv", 2)
          /\ 2 <= Len(Plain("recv")[s]) /\ 2 \in Nat
      BY <3>1, <1>4, BeginsWithPreface
    <3>5. Has(s, "recv", 2, <<>>, v)
      BY <3>4, EmptyHas
    <3> QED BY <3>2, <3>3, <3>4, <3>5 DEF Piecewise
  <2> QED BY <2>1, <2>2
<1>6. rest \in Seq(Prior(s, "recv", z)) /\ <<>> \o rest = rest
  <2>1. PICK R : R = Prior(s, "recv", z)
    OBVIOUS
  <2>2. n.recv \in Seq(R)
    BY <2>1, <1>3
  <2>3. SubSeq(n.recv, 3, Len(n.recv)) \in Seq(R)
    BY <2>2
  <2>4. rest = SubSeq(n.recv, 3, Len(n.recv))
    <3>1. User!Preface + 1 = 3
      BY DEF User!Preface
    <3> QED BY <3>1, <1>z
  <2>5. rest \in Seq(R)
    BY <2>3, <2>4
  <2> QED BY <2>1, <2>5
<1>7. /\ DOMAIN h = Fields /\ h.proto = "h2" /\ h.recv = <<>> /\ h.send = <<>>
      /\ h.poisoned = {} /\ h.h2logged = n.h2logged
  BY <1>z, <1>1, FieldsAre DEF Writes
<1>8. n.h2logged \in BOOLEAN /\ ~n.h2logged
  BY <1>1 DEF Writes, KeptOk
<1>9. Fills(h, g, Entries("recv", conn, User!Messages(rest)), s, "recv", conn, k, z, FALSE, v)
  <2>1. /\ Has(s, "recv", k, h["recv"], v) /\ k <= z
        /\ "recv" \notin v => rest = SubSeq(Plain("recv")[s], k + 1, z)
    BY <1>5, <1>7 DEF Piecewise
  <2>2. User!Fed(h, "recv", rest, FALSE) = User!Messages(rest)
    BY <1>6, <1>7 DEF User!Fed
  <2>3. FALSE \in BOOLEAN
    OBVIOUS
  <2>4. Entries("recv", conn, User!Messages(rest))
          = Entries("recv", conn, User!Fed(h, "recv", rest, FALSE))
    BY <2>2
  <2>5. Fills(h, User!Feed(h, "recv", rest, FALSE), Entries("recv", conn, User!Messages(rest)),
              s, "recv", conn, k, z, FALSE, v)
    BY <2>1, <2>3, <2>4, <1>3, <1>6, <1>7, <1>a, FeedFills
  <2> QED BY <2>5, <1>z
<1>10. /\ DOMAIN g = Fields /\ g.h2logged = n.h2logged /\ g.proto = "h2" /\ g.poisoned = {}
       /\ g.send = <<>> /\ Has(s, "recv", z, g["recv"], v)
       /\ "recv" \notin v =>
            Later(s, "recv", conn, k, z) \subseteq Entries("recv", conn, User!Messages(rest))
       /\ \A entry \in Entries("recv", conn, User!Messages(rest)) :
            Says(entry, s, "recv", conn, z, v)
  BY <1>7, <1>9, <1>a DEF Fills
<1>11. PICK w : Piecewise(s, "send", w, y, n.send, v)
  <2>1. CASE "send" \in v
    <3>1. 0 \in Nat /\ 0 <= y /\ 0 <= Len(Plain("send")[s])
      BY <1>3
    <3>2. Has(s, "send", 0, <<>>, v)
      BY <3>1, <2>1, EmptyHas
    <3> QED BY <3>1, <3>2, <2>1 DEF Piecewise
  <2>2. CASE "send" \notin v
    <3>1. Clean(s, "send", y, n.send)
      BY <2>2, <1>3, <1>1, <1>a DEF Holds, Has, Writes, Widened
    <3>2. PICK i \in 0 .. y : /\ Boundary(Plain("send")[s], i) /\ PrefacePassed(s, "send", i)
                              /\ n.send = SubSeq(Plain("send")[s], i + 1, y)
      BY <3>1 DEF Clean
    <3>3. i \in Nat /\ i <= y /\ i <= Len(Plain("send")[s])
      BY <1>3, Reaches
    <3>4. Has(s, "send", i, <<>>, v)
      BY <3>2, <3>3, EmptyHas
    <3> QED BY <3>2, <3>3, <3>4 DEF Piecewise
  <2> QED BY <2>1, <2>2
<1>12. /\ w \in Nat /\ w <= y /\ Has(s, "send", w, <<>>, v)
       /\ "send" \notin v => n.send = SubSeq(Plain("send")[s], w + 1, y)
  BY <1>11 DEF Piecewise
<1>13. Fills(g, f, Entries("send", conn, User!Messages(n.send)), s, "send", conn, w, y, FALSE, v)
  <2>1. Has(s, "send", w, g["send"], v)
    BY <1>10, <1>12
  <2>2. User!Fed(g, "send", n.send, FALSE) = User!Messages(n.send)
    <3>1. <<>> \o n.send = n.send
      <4>1. PICK R, part : R = Prior(s, "send", y) /\ part = n.send
        OBVIOUS
      <4>2. part \in Seq(R)
        BY <4>1, <1>3
      <4>3. <<>> \o part = part
        BY <4>2
      <4> QED BY <4>1, <4>3
    <3> QED BY <3>1, <1>10 DEF User!Fed
  <2>3. FALSE \in BOOLEAN /\ "send" \in Dirs /\ DOMAIN g = Fields
    BY <1>10, <1>a
  <2>5. Entries("send", conn, User!Messages(n.send))
          = Entries("send", conn, User!Fed(g, "send", n.send, FALSE))
    BY <2>2
  <2>6. Fills(g, User!Feed(g, "send", n.send, FALSE), Entries("send", conn, User!Messages(n.send)),
              s, "send", conn, w, y, FALSE, v)
    BY <2>1, <2>3, <2>5, <1>3, <1>12, FeedFills
  <2> QED BY <2>6, <1>z
<1>14. /\ DOMAIN f = Fields /\ f.h2logged = n.h2logged /\ f.proto = "h2" /\ f.poisoned = {}
       /\ f.recv = g.recv /\ Has(s, "send", y, f["send"], v)
       /\ \A entry \in Entries("send", conn, User!Messages(n.send)) :
            Says(entry, s, "send", conn, y, v)
  BY <1>10, <1>13, <1>a DEF Fills
<1>15. Holds(User!Reported(f), s, b, v) /\ User!Reported(f).poisoned = {}
  <2>1. Has(s, "recv", b["recv"], f["recv"], v) /\ Has(s, "send", b["send"], f["send"], v)
    BY <1>10, <1>14, <1>b
  <2>2. /\ DOMAIN f = Fields /\ f.h2logged \in BOOLEAN /\ ~f.h2logged
        /\ f.proto = "h2" /\ f.poisoned = {}
    BY <1>8, <1>14
  <2> QED BY <2>1, <2>2, BothFilled
<1>16. \A entry \in N : \E d \in Dirs : Says(entry, s, d, conn, b[d], v)
  BY <1>z, <1>10, <1>14, <1>a, <1>b
<1>17. "recv" \notin v => Later(s, "recv", conn, x, z) \subseteq N
  <2>1. ASSUME "recv" \notin v
        PROVE  Later(s, "recv", conn, x, z) \subseteq Later(s, "recv", conn, 2, z)
    BY <2>1, <1>2, LaterThanPreface
  <2> QED BY <2>1, <1>z, <1>5, <1>10
<1> QED BY <1>1, <1>15, <1>16, <1>17, <1>b DEF Takes, Writes

\* The directions of session s of which a part was cut off and nothing looked.
Blind(U, s) == {dir \in Dirs : <<s, dir>> \in U}

\* Event e brings s from a to b, but for what was cut off.
Comes(e, s, dir, a, b) ==
  /\ Brings(s, dir, e.data, a, b) /\ (CutShort(e) => e.len = MaxBuf)
  /\ CutShort(e) \/ InFull(s, dir, e.data, a, b)

HasBad(N) == \E entry \in N : entry.dir = "recv" /\ User!Detected(entry.units)
\* A turn of the loop in Main for an event e of session s, with connection c before.
Took(e, c, n, N, s, a, b, v) ==
  /\ Takes(c, n, N, s, e.conn, a, b, v)
  /\ connections' = [connections EXCEPT ![e.ssl] = n]
  /\ logged' = logged \cup N
  /\ blocked' = IF HasBad(N) THEN blocked \cup {e.conn} ELSE blocked
  /\ poisonLogs' = poisonLogs \/ poisonLogs' = Append(poisonLogs, e.conn)
  /\ n.poisoned # {} /\ ~c.h2logged => poisonLogs' = Append(poisonLogs, e.conn)

LEMMA NewHolds ==
  ASSUME NEW s \in Sessions, NEW a, a["recv"] = 0, a["send"] = 0, NEW u
  PROVE  Holds(User!NewConnection, s, a, u)
<1>1. PICK c : c = User!NewConnection
  OBVIOUS
<1>2. /\ c.proto = "unknown" /\ c.recv = <<>> /\ c.send = <<>> /\ c.poisoned = {}
      /\ ~c.h2logged
  BY <1>1 DEF User!NewConnection
<1>3. KeptOk(c)
  BY <1>1 DEF KeptOk, Fields, User!NewConnection
<1>4. OnlyPreface(<<>>)
  BY DEF OnlyPreface
<1>5. SubSeq(In[s], 1, 0) = <<>>
  <2>1. In[s] \in Seq(SetOf(In[s]))
    BY PlaintextAssumption DEF WellFormed
  <2> QED BY <2>1
<1>6. Has(s, "send", 0, <<>>, u) /\ ("recv" \in u => Has(s, "recv", 0, <<>>, u))
  <2>1. PrefacePassed(s, "send", 0)
    BY PlaintextAssumption DEF PrefacePassed, Plain
  <2>2. 0 \in Nat /\ 0 <= Len(Plain("send")[s])
    BY PlainIsWellFormed DEF WellFormed
  <2>3. Boundary(Plain("send")[s], 0)
    BY StartIsBoundary
  <2>4. Has(s, "send", 0, <<>>, u)
    BY <2>1, <2>2, <2>3, EmptyHas
  <2>5. ASSUME "recv" \in u PROVE Has(s, "recv", 0, <<>>, u)
    <3>1. 0 \in Nat /\ 0 <= Len(Plain("recv")[s])
      BY PlainIsWellFormed DEF WellFormed
    <3> QED BY <2>5, <3>1, EmptyHas
  <2> QED BY <2>4, <2>5
<1>7. \A dir \in Dirs : dir = "recv" \/ dir = "send"
  BY DEF Dirs
<1> QED BY <1>1, <1>2, <1>3, <1>4, <1>5, <1>6, <1>7 DEF Holds

LEMMA ConnectionHolds ==
  ASSUME NEW e, NEW s \in Sessions, NEW a, NEW u,
         IF connections[e.ssl] = None THEN a["recv"] = 0 /\ a["send"] = 0
         ELSE Holds(connections[e.ssl], s, a, u)
  PROVE  Holds(User!Connection(e), s, a, u)
<1>1. PICK c : c = IF connections[e.ssl] = None THEN User!NewConnection ELSE connections[e.ssl]
  OBVIOUS
<1>2. Holds(c, s, a, u)
  BY <1>1, NewHolds
<1>3. PICK v : User!Connection(e) = [c EXCEPT !.fedCut = v]
  BY <1>1 DEF User!Connection
<1>4. PICK d : d = [c EXCEPT !.fedCut = v]
  OBVIOUS
<1>5. DOMAIN c = Fields
  BY <1>2 DEF Holds, KeptOk
<1>6. /\ DOMAIN d = Fields /\ d.proto = c.proto /\ d.recv = c.recv /\ d.send = c.send
      /\ d.poisoned = c.poisoned /\ d.h2logged = c.h2logged
  BY <1>4, <1>5, FieldsAre
<1>7. \A dir \in Dirs : d[dir] = c[dir]
  BY <1>6 DEF Dirs
<1>8. Holds(d, s, a, u)
  BY <1>2, <1>6, <1>7 DEF Holds, KeptOk
<1> QED BY <1>3, <1>4, <1>8

LEMMA BadEntries ==
  ASSUME NEW dir, NEW conn, NEW msgs
  PROVE  HasBad(Entries(dir, conn, msgs)) <=> dir = "recv" /\ \E msg \in msgs : User!Detected(msg)
<1>1. \A msg : Entry(dir, conn, msg).dir = dir /\ Entry(dir, conn, msg).units = msg
  BY DEF Entry
<1> QED BY <1>1 DEF HasBad, Entries

LEMMA TurnTakes ==
  ASSUME Daemon, NEW e, e = Head(ring), e.dir \in Dirs,
         NEW s \in Sessions, e.of = s, NEW a, NEW b,
         NEW c, c = User!Connection(e), Holds(c, s, a, Blind(unseen, s)),
         Comes(e, s, e.dir, a, b)
  PROVE  \E n, N : Took(e, c, n, N, s, a, b, Blind(unseen', s))
<1>a. PICK dir \in Dirs : dir = e.dir /\ dir # "close"
  BY DEF Dirs
<1>b. PICK conn, data : conn = e.conn /\ data = e.data
  OBVIOUS
<1>c. /\ Brings(s, dir, data, a, b) /\ (CutShort(e) => e.len = MaxBuf)
      /\ CutShort(e) \/ InFull(s, dir, data, a, b)
  BY <1>a, <1>b DEF Comes
<1>d. PICK u, v : u = Blind(unseen, s) /\ v = Blind(unseen', s)
  OBVIOUS
<1>f. Holds(c, s, a, u)
  BY <1>d
<1>e. DOMAIN c = Fields /\ KeptOk(c)
  BY DEF Holds, KeptOk
<1>1. CASE User!HTTP2(e)
  <2>1. PICK truncated \in BOOLEAN : truncated = (e.len = MaxBuf)
    OBVIOUS
  <2>2. PICK N : N = Entries(dir, conn, User!Fed(c, dir, data, truncated))
    OBVIOUS
  <2>3. PICK f, n : f = User!Feed(c, dir, data, truncated) /\ n = User!Reported(f)
    OBVIOUS
  <2>4. c.proto = "h2"
    BY <1>1 DEF User!HTTP2
  <2>5. Takes(c, n, N, s, conn, a, b, v)
    <3>1. u = v
      BY <1>1, <1>d DEF User!HTTP2
    <3>2. Holds(c, s, a, v)
      BY <3>1, <1>f
    <3>3. truncated \/ InFull(s, dir, data, a, b)
      BY <1>c, <2>1
    <3>4. n = User!Reported(User!Feed(c, dir, data, truncated))
      BY <2>3
    <3>5. Brings(s, dir, data, a, b)
      BY <1>c
    <3> QED BY <3>2, <3>3, <3>4, <3>5, <2>2, <2>4, HTTP2Takes
  <2>6. /\ connections' = [connections EXCEPT ![e.ssl] = n]
        /\ poisonLogs' = IF f.poisoned # {} /\ ~f.h2logged THEN Append(poisonLogs, e.conn)
                         ELSE poisonLogs
        /\ logged' = logged \cup N
        /\ blocked' = IF /\ dir = "recv"
                         /\ \E msg \in User!Fed(c, dir, data, truncated) : User!Detected(msg)
                      THEN blocked \cup {conn} ELSE blocked
    BY <1>1, <1>a, <1>b, <2>1, <2>2, <2>3
       DEF User!HTTP2, User!Keep, User!logPoison, User!Deliver, Entries, Entry
  <2>7. f.h2logged = c.h2logged /\ n.poisoned = f.poisoned
    <3>1. f.h2logged = c.h2logged /\ DOMAIN f = Fields
      BY <1>e, <2>3, FeedEffect DEF Dirs
    <3>2. n.poisoned = f.poisoned
      BY <3>1, <2>3, FieldsAre DEF User!Reported
    <3> QED BY <3>1, <3>2
  <2>8. blocked' = IF HasBad(N) THEN blocked \cup {conn} ELSE blocked
    BY <2>2, <2>6, BadEntries
  <2> QED BY <1>b, <1>d, <2>5, <2>6, <2>7, <2>8 DEF Took
<1>2. ASSUME ~User!HTTP2(e), ~User!Close(e)
      PROVE  \E n, N : Took(e, c, n, N, s, a, b, v)
  <2>0. Brings(s, dir, data, a, b) /\ Widened(u, v, dir) /\ (dir \in v \/ InFull(s, dir, data, a, b))
    <3>1. User!Overlook(e)
      BY <1>2 DEF Daemon, User!ReadRecord, User!Undecided, User!BecomesHTTP2, User!HTTP1
    <3>2. unseen' = IF CutShort(e) THEN unseen \cup {<<s, dir>>} ELSE unseen
      BY <3>1, <1>a DEF User!Overlook, CutShort
    <3>3. Widened(u, v, dir) /\ (CutShort(e) => dir \in v)
      BY <3>2, <1>d DEF Widened, Blind
    <3> QED BY <3>3, <1>c
  <2>1. PICK n : n = [c EXCEPT ![dir] = @ \o data]
    OBVIOUS
  <2>2. n = User!Buffered(e)
    BY <1>a, <1>b, <2>1 DEF User!Buffered
  <2>3. CASE User!Undecided(e)
    <3>1. c.proto = "unknown" /\ User!DetectProto(n.recv) = "unknown"
      <4>1. n.proto = "unknown" /\ User!DetectProto(n.recv) = "unknown"
        BY <2>2, <2>3 DEF User!Undecided
      <4>2. n.proto = c.proto
        BY <2>1, <1>e, FieldsAre DEF Dirs
      <4> QED BY <4>1, <4>2
    <3>2. Takes(c, n, {}, s, conn, a, b, v)
      BY <1>f, <2>0, <2>1, <3>1, UndecidedTakes
    <3>3. /\ connections' = [connections EXCEPT ![e.ssl] = n]
          /\ logged' = logged /\ blocked' = blocked /\ poisonLogs' = poisonLogs
      BY <2>2, <2>3 DEF User!Undecided, User!Keep
    <3>4. n.poisoned = {}
      <4>1. Holds(c, s, a, u) /\ c.proto # "h2"
        BY <3>1, <1>f
      <4>2. Writes(c, n, s, dir, data, a, b, v)
        BY <4>1, <2>0, <2>1, BufferWrites
      <4> QED BY <4>2 DEF Writes
    <3> QED BY <1>b, <3>2, <3>3, <3>4 DEF Took, HasBad
  <2>4. CASE User!BecomesHTTP2(e)
    <3>1. n.proto = c.proto
      BY <2>1, <1>e, FieldsAre DEF Dirs
    <3>2. c.proto = "unknown" /\ User!DetectProto(n.recv) = "h2"
      BY <2>2, <2>4, <3>1 DEF User!BecomesHTTP2
    <3>3. PICK h, rest : /\ h = [n EXCEPT !.proto = "h2", !.recv = <<>>, !.send = <<>>]
                         /\ rest = SubSeq(n.recv, User!Preface + 1, Len(n.recv))
      OBVIOUS
    <3>4. PICK g : g = User!Feed(h, "recv", rest, FALSE)
      OBVIOUS
    <3>5. PICK f : f = User!Feed(g, "send", n.send, FALSE)
      OBVIOUS
    <3>6. PICK N : N = Entries("recv", conn, User!Messages(rest))
                         \cup Entries("send", conn, User!Messages(n.send))
      OBVIOUS
    <3>7. Takes(c, User!Reported(f), N, s, conn, a, b, v)
      <4>1. Becomes(n, h, rest, g, f, N, conn)
        BY <3>3, <3>4, <3>5, <3>6 DEF Becomes
      <4> QED BY <1>f, <2>0, <2>1, <3>2, <4>1, BecomesTakes
    <3>8. /\ connections' = [connections EXCEPT ![e.ssl] = User!Reported(f)]
          /\ poisonLogs' = IF f.poisoned # {} /\ ~f.h2logged THEN Append(poisonLogs, e.conn)
                           ELSE poisonLogs
          /\ logged' = logged \cup N
          /\ blocked' = IF \E msg \in User!Messages(rest) : User!Detected(msg)
                        THEN blocked \cup {conn} ELSE blocked
      BY <1>b, <2>2, <2>4, <3>3, <3>4, <3>5, <3>6
         DEF User!BecomesHTTP2, User!Keep, User!logPoison, Entries, Entry
    <3>9. HasBad(N) <=> \E msg \in User!Messages(rest) : User!Detected(msg)
      <4>1. HasBad(N) <=> \/ HasBad(Entries("recv", conn, User!Messages(rest)))
                          \/ HasBad(Entries("send", conn, User!Messages(n.send)))
        BY <3>6 DEF HasBad
      <4>2. ~HasBad(Entries("send", conn, User!Messages(n.send)))
        BY BadEntries
      <4>3. HasBad(Entries("recv", conn, User!Messages(rest)))
              <=> \E msg \in User!Messages(rest) : User!Detected(msg)
        BY BadEntries
      <4> QED BY <4>1, <4>2, <4>3
    <3>10. f.h2logged = c.h2logged /\ User!Reported(f).poisoned = f.poisoned
      <4>1. DOMAIN n = Fields /\ n.h2logged = c.h2logged
        BY <2>1, <1>e, FieldsAre DEF Dirs
      <4>2. DOMAIN h = Fields /\ h.h2logged = c.h2logged
        BY <3>3, <4>1, FieldsAre
      <4>3. DOMAIN g = Fields /\ g.h2logged = c.h2logged
        <5>1. "recv" \in {"recv", "send"}
          OBVIOUS
        <5>2. /\ DOMAIN User!Feed(h, "recv", rest, FALSE) = Fields
              /\ User!Feed(h, "recv", rest, FALSE).h2logged = h.h2logged
              /\ h.poisoned \subseteq User!Feed(h, "recv", rest, FALSE).poisoned
          BY <5>1, <4>2, FeedEffect
        <5> QED BY <5>2, <4>2, <3>4
      <4>4. DOMAIN f = Fields /\ f.h2logged = c.h2logged
        <5>1. "send" \in {"recv", "send"}
          OBVIOUS
        <5>2. /\ DOMAIN User!Feed(g, "send", n.send, FALSE) = Fields
              /\ User!Feed(g, "send", n.send, FALSE).h2logged = g.h2logged
              /\ g.poisoned \subseteq User!Feed(g, "send", n.send, FALSE).poisoned
          BY <5>1, <4>3, FeedEffect
        <5> QED BY <5>2, <4>3, <3>5
      <4>5. User!Reported(f).poisoned = f.poisoned
        BY <4>4, FieldsAre DEF User!Reported
      <4> QED BY <4>4, <4>5
    <3> QED BY <1>b, <3>7, <3>8, <3>9, <3>10 DEF Took
  <2>5. CASE User!HTTP1(e)
    <3>1. n.proto = c.proto
      BY <2>1, <1>e, FieldsAre DEF Dirs
    <3>2. c.proto = "h1" \/ (c.proto = "unknown" /\ User!DetectProto(n.recv) = "h1")
      BY <2>2, <2>5, <3>1 DEF User!HTTP1
    <3>3. PICK f : f = [n EXCEPT !.proto = "h1", ![dir] = User!Remainder(n[dir])]
      OBVIOUS
    <3>4. PICK N : N = Entries(dir, conn, User!Messages(n[dir]))
      OBVIOUS
    <3>5. Takes(c, f, N, s, conn, a, b, v)
      <4>1. IsHTTP1(c, n)
        BY <3>2 DEF IsHTTP1
      <4>2. n = [c EXCEPT ![dir] = @ \o data] /\ Holds(c, s, a, u) /\ s \in Sessions /\ dir \in Dirs
        BY <2>1, <1>f
      <4> QED BY ONLY <2>0, <4>1, <4>2, <3>3, <3>4, HTTP1Takes, ZenonT(60)
    <3>6. /\ connections' = [connections EXCEPT ![e.ssl] = f] /\ poisonLogs' = poisonLogs
          /\ logged' = logged \cup N
          /\ blocked' = IF dir = "recv" /\ \E msg \in User!Messages(n[dir]) : User!Detected(msg)
                        THEN blocked \cup {conn} ELSE blocked
      BY <1>a, <1>b, <2>2, <2>5, <3>3, <3>4
         DEF User!HTTP1, User!Keep, User!Deliver, Entries, Entry
    <3>7. f.poisoned = {}
      <4>1. Writes(c, n, s, dir, data, a, b, v)
        <5>1. Holds(c, s, a, u) /\ c.proto # "h2"
          BY <3>2, <1>f
        <5> QED BY <5>1, <2>0, <2>1, BufferWrites
      <4> QED BY <4>1, <3>3, FieldsAre DEF Writes, Dirs
    <3>8. blocked' = IF HasBad(N) THEN blocked \cup {conn} ELSE blocked
      BY <3>4, <3>6, BadEntries
    <3> QED BY <1>b, <3>5, <3>6, <3>7, <3>8 DEF Took
  <2> QED BY <1>2, <2>3, <2>4, <2>5 DEF Daemon, User!ReadRecord
<1>3. ~User!Close(e)
  BY <1>a DEF User!Close
<1> QED BY <1>1, <1>2, <1>3, <1>d

-----------------------------------------------------------------------------
(* Whose connection the daemon has under an SSL address.                    *)

\* A connection of session s at p: s is open there, or its close event is pending
\* and no event of another session at p comes before it.
Alone(r, p, s, k) == \A i \in 1 .. k : r[i].ssl = p => r[i].of = s
HoldsAt(r, f, p, s) ==
  \/ f[s].st = "open" /\ f[s].ptr = p /\ Alone(r, p, s, Len(r))
  \/ \E k \in 1 .. Len(r) : r[k].of = s /\ r[k].ssl = p /\ r[k].dir = "close" /\ Alone(r, p, s, k)

\* The daemon has read all that there is of s.
Over(r, f, s) == f[s].st = "closed" /\ \A i \in 1 .. Len(r) : r[i].of # s

LEMMA HoldsGrown ==
  ASSUME NEW r, NEW q, NEW n \in Nat, NEW e, NEW s \in Sessions, NEW f, NEW g,
         Grown(r, q, n, e, s, f, g), NEW p, NEW t \in Sessions, HoldsAt(r, f, p, t)
  PROVE  HoldsAt(q, g, p, t)
<1>1. /\ Len(r) = n /\ Len(q) = n + 1 /\ q[n + 1] = e /\ \A i \in 1 .. n : q[i] = r[i]
      /\ f[s].st = "open" /\ e.of = s /\ e.ssl = f[s].ptr
  BY DEF Grown
<1>2. \A i \in 1 .. n + 1 : i \in 1 .. n \/ i = n + 1
  OBVIOUS
<1>3. CASE f[t].st = "open" /\ f[t].ptr = p /\ Alone(r, p, t, n)
  <2>1. e.ssl = p => e.of = t
    BY <1>1, <1>3 DEF Grown
  <2>2. Alone(q, p, t, n + 1)
    BY <2>1, <1>1, <1>2, <1>3 DEF Alone
  <2>3. CASE t = s /\ e.dir = "close"
    <3>1. n + 1 \in 1 .. n + 1
      OBVIOUS
    <3> QED BY <3>1, <2>2, <2>3, <1>1, <1>3 DEF HoldsAt
  <2>4. CASE ~(t = s /\ e.dir = "close")
    <3>1. g[t].st = "open" /\ g[t].ptr = p
      BY <2>4, <1>3 DEF Grown
    <3> QED BY <3>1, <2>2, <1>1 DEF HoldsAt
  <2> QED BY <2>3, <2>4
<1>4. ASSUME NEW k \in 1 .. n, r[k].of = t, r[k].ssl = p, r[k].dir = "close", Alone(r, p, t, k)
      PROVE  HoldsAt(q, g, p, t)
  <2>1. \A i \in 1 .. k : i \in 1 .. n
    OBVIOUS
  <2>2. Alone(q, p, t, k)
    BY <2>1, <1>1, <1>4 DEF Alone
  <2>3. k \in 1 .. n + 1 /\ q[k] = r[k]
    BY <1>1
  <2> QED BY <2>2, <2>3, <1>1, <1>4 DEF HoldsAt
<1> QED BY <1>1, <1>3, <1>4 DEF HoldsAt

LEMMA HoldsShifted ==
  ASSUME NEW r, NEW q, NEW n \in Nat, Shifted(r, q, n), NEW f, NEW p, NEW t,
         HoldsAt(r, f, p, t), r[1].dir # "close" \/ r[1].ssl # p
  PROVE  HoldsAt(q, f, p, t)
<1>1. Len(r) = n + 1 /\ Len(q) = n /\ \A i \in 1 .. n : i + 1 \in 1 .. n + 1 /\ q[i] = r[i + 1]
  BY ShiftOne DEF Shifted
<1>2. CASE f[t].st = "open" /\ f[t].ptr = p /\ Alone(r, p, t, n + 1)
  <2>1. Alone(q, p, t, n)
    BY <1>1, <1>2 DEF Alone
  <2> QED BY <2>1, <1>1, <1>2 DEF HoldsAt
<1>3. ASSUME NEW k \in 1 .. n + 1, r[k].of = t, r[k].ssl = p, r[k].dir = "close", Alone(r, p, t, k)
      PROVE  HoldsAt(q, f, p, t)
  <2>1. PICK m \in 1 .. n : m + 1 = k
    <3>1. k # 1
      BY <1>3
    <3>2. k - 1 \in 1 .. n /\ (k - 1) + 1 = k
      BY <3>1
    <3> QED BY <3>2
  <2>2. q[m] = r[k]
    BY <2>1, <1>1
  <2>3. \A i \in 1 .. m : i \in 1 .. n /\ i + 1 \in 1 .. k
    BY <2>1
  <2>4. Alone(q, p, t, m)
    BY <2>3, <1>1, <1>3 DEF Alone
  <2> QED BY <2>2, <2>4, <1>1, <1>3 DEF HoldsAt
<1> QED BY <1>1, <1>2, <1>3 DEF HoldsAt

\* The oldest event and the connection at its address are of one session.
LEMMA HolderOfFirst ==
  ASSUME NEW r, NEW n \in Nat, Len(r) = n + 1, NEW f, NEW t, HoldsAt(r, f, r[1].ssl, t)
  PROVE  r[1].of = t
<1>1. 1 \in 1 .. n + 1 /\ \A k \in 1 .. n + 1 : 1 \in 1 .. k
  OBVIOUS
<1> QED BY <1>1 DEF HoldsAt, Alone

LEMMA OneHold ==
  ASSUME NEW r, NEW n \in Nat, Len(r) = n + 1, NEW f, Ordered(r), Owned(r, f),
         NEW p, HoldsAt(r, f, p, r[1].of)
  PROVE  r[1].ssl = p
<1>1. 1 \in 1 .. n + 1
  OBVIOUS
<1>2. CASE f[r[1].of].st = "open" /\ f[r[1].of].ptr = p
  BY <1>1, <1>2 DEF Owned
<1>3. ASSUME NEW k \in 1 .. n + 1, r[k].of = r[1].of, r[k].ssl = p PROVE r[1].ssl = p
  <2>1. k = 1 \/ 1 < k
    OBVIOUS
  <2> QED BY <2>1, <1>1, <1>3 DEF Ordered
<1> QED BY <1>2, <1>3 DEF HoldsAt

LEMMA HoldsNow ==
  ASSUME NEW r, NEW n \in Nat, Len(r) = n + 1, NEW f, Ordered(r), Owned(r, f)
  PROVE  HoldsAt(r, f, r[1].ssl, r[1].of)
<1>1. 1 \in 1 .. n + 1
  OBVIOUS
<1> PICK s, p : s = r[1].of /\ p = r[1].ssl
  OBVIOUS
<1>2. ASSUME NEW i \in 1 .. n + 1, r[i].ssl = p, r[i].of # s
      PROVE  \E k \in 1 .. i - 1 : r[k].of = s /\ r[k].dir = "close"
  <2>1. 1 < i
    BY <1>2
  <2> QED BY <2>1, <1>1, <1>2 DEF Ordered, EndsIn
<1>3. CASE f[s].st = "open" /\ p = f[s].ptr
  <2>1. \A k \in 1 .. n + 1 : r[k].of = s => r[k].dir # "close"
    BY <1>3 DEF Owned
  <2>2. \A i \in 1 .. n + 1 : \A k \in 1 .. i - 1 : k \in 1 .. n + 1
    OBVIOUS
  <2>3. Alone(r, p, s, n + 1)
    BY <2>1, <2>2, <1>2 DEF Alone
  <2> QED BY <2>3, <1>3 DEF HoldsAt
<1>4. CASE EndsIn(r, 1, n + 1)
  <2>1. PICK k \in 1 .. n + 1 : r[k].of = s /\ r[k].dir = "close"
    BY <1>4 DEF EndsIn
  <2>2. r[k].ssl = p
    <3>1. k = 1 \/ 1 < k
      OBVIOUS
    <3> QED BY <3>1, <2>1, <1>1 DEF Ordered
  <2>3. ASSUME NEW i \in 1 .. k, r[i].ssl = p, r[i].of # s PROVE FALSE
    <3>1. i \in 1 .. n + 1
      OBVIOUS
    <3>2. PICK j \in 1 .. i - 1 : r[j].of = s /\ r[j].dir = "close"
      BY <3>1, <2>3, <1>2
    <3>3. j \in 1 .. n + 1 /\ j < k
      OBVIOUS
    <3> QED BY <3>2, <3>3, <2>1 DEF Ordered
  <2>4. Alone(r, p, s, k)
    BY <2>3 DEF Alone
  <2> QED BY <2>1, <2>2, <2>4 DEF HoldsAt
<1> QED BY <1>1, <1>3, <1>4 DEF Owned

LEMMA OverGrown ==
  ASSUME NEW r, NEW q, NEW n \in Nat, NEW e, NEW s \in Sessions, NEW f, NEW g,
         Grown(r, q, n, e, s, f, g), NEW t \in Sessions, Over(r, f, t)
  PROVE  Over(q, g, t)
<1>1. /\ Len(r) = n /\ Len(q) = n + 1 /\ q[n + 1] = e /\ \A i \in 1 .. n : q[i] = r[i]
      /\ f[s].st = "open" /\ e.of = s
  BY DEF Grown
<1>2. \A i \in 1 .. n + 1 : i \in 1 .. n \/ i = n + 1
  OBVIOUS
<1>3. t # s /\ g[t].st = "closed"
  BY <1>1 DEF Over, Grown
<1> QED BY <1>1, <1>2, <1>3 DEF Over

LEMMA OverShifted ==
  ASSUME NEW r, NEW q, NEW n \in Nat, Shifted(r, q, n), NEW f, NEW t, Over(r, f, t)
  PROVE  Over(q, f, t)
BY ShiftOne DEF Over, Shifted

\* The close event of a session is its last.
LEMMA OverNow ==
  ASSUME NEW r, NEW q, NEW n \in Nat, Shifted(r, q, n), NEW f, Ordered(r), Owned(r, f),
         r[1].dir = "close"
  PROVE  Over(q, f, r[1].of)
<1>1. Len(r) = n + 1 /\ Len(q) = n /\ \A i \in 1 .. n : i + 1 \in 1 .. n + 1 /\ q[i] = r[i + 1]
  BY ShiftOne DEF Shifted
<1>2. 1 \in 1 .. n + 1 /\ \A i \in 1 .. n : 1 < i + 1
  OBVIOUS
<1>3. f[r[1].of].st = "closed"
  BY <1>1, <1>2 DEF Owned
<1>4. \A i \in 1 .. n : q[i].of # r[1].of
  BY <1>1, <1>2 DEF Ordered
<1> QED BY <1>1, <1>3, <1>4 DEF Over

-----------------------------------------------------------------------------
(* The daemon has taken the plaintext of each session up to at[s][dir], and *)
(* the connection under an SSL address p is of session own[p].              *)

Flow(r, f, at) ==
  \A s \in Sessions : \A dir \in Dirs :
    Pending(r, s, dir, at[s][dir], f[s][dir]) /\ f[s][dir] <= Len(Plain(dir)[s])

\* What is kept is of one session, and is reported when it is given up.
KeptAt(r, f, c, L, at, p, s, U) ==
  /\ s \in Sessions /\ HoldsAt(r, f, p, s) /\ Holds(c, s, at[s], Blind(U, s))
  /\ c.poisoned # {} /\ s \in Clients => s \in L

\* Of a session nothing was taken yet, or a connection is kept, or it is over.
Phase(r, f, C, at, own, s) ==
  \/ at[s]["recv"] = 0 /\ at[s]["send"] = 0
  \/ \E p \in Ptrs : C[p] # None /\ own[p] = s
  \/ Over(r, f, s)

\* Nothing is missing but of a client that was given up or lost a part unseen.
Caught(L, G, at, U) ==
  \A c \in Clients \ L :
    "recv" \notin Blind(U, c) => Later(c, "recv", c, 0, at[c]["recv"]) \subseteq G

Streams(r, f, C, L, G, at, own, U) ==
  /\ at \in [Sessions -> [Dirs -> Nat]] /\ own \in [Ptrs -> Sessions \cup {None}]
  /\ Flow(r, f, at)
  /\ \A p \in Ptrs : C[p] # None => KeptAt(r, f, C[p], L, at, p, own[p], U)
  /\ \A s \in Sessions : Phase(r, f, C, at, own, s)
  /\ Caught(L, G, at, U)

\* What was logged is whole, or of units that were read where a part is missing.
Sound(G, f, U) ==
  \A entry \in G : \E s \in Sessions, dir \in Dirs : \E conn :
    Says(entry, s, dir, conn, f[s][dir], Blind(U, s)) /\ (s \in Clients => conn = s)

IsBad(entry, c) == entry.dir = "recv" /\ entry.conn = c /\ User!Detected(entry.units)
Blamed(G, B) ==
  /\ \A entry \in G : \A c : IsBad(entry, c) => c \in B
  /\ \A c \in B : \E entry \in G : IsBad(entry, c)

Capturing ==
  /\ connections = [p \in Ptrs |-> connections[p]] /\ poisonLogs \in Seq(Clients \cup {None})
  /\ Ordered(ring) /\ Owned(ring, sess) /\ NotRead
  /\ \E at, own : Streams(ring, sess, connections, SetOf(poisonLogs), logged, at, own, unseen)
  /\ Sound(logged, sess, unseen) /\ Blamed(logged, blocked)

LEMMA FlowMoved ==
  ASSUME IInv, NEW at \in [Sessions -> [Dirs -> Nat]], Flow(ring, sess, at), Motion
  PROVE  /\ Flow(ring', sess', at)
         /\ \A s \in Sessions, dir \in Dirs : sess[s][dir] <= sess'[s][dir]
<1>1. ring \in Seq(EventType) /\ sess \in [Sessions -> SessionType]
  BY DEF IInv, StateType
<1>2. \A s \in Sessions : \A dir \in Dirs : at[s][dir] \in Nat /\ sess[s][dir] \in Nat
  BY <1>1 DEF SessionType, Dirs
<1>3. PICK n \in Nat : n = Len(ring)
  BY <1>1
<1> PICK r, q, f, g : r = ring /\ q = ring' /\ f = sess /\ g = sess'
  OBVIOUS
<1> SUFFICES ASSUME NEW s \in Sessions, NEW dir \in Dirs
             PROVE  /\ Pending(q, s, dir, at[s][dir], g[s][dir])
                    /\ g[s][dir] <= Len(Plain(dir)[s]) /\ f[s][dir] <= g[s][dir]
  BY DEF Flow
<1> PICK a \in Nat, z \in Nat : a = at[s][dir] /\ z = f[s][dir]
  BY <1>2
<1>4. Pending(r, s, dir, a, z) /\ z <= Len(Plain(dir)[s])
  BY DEF Flow
<1>5. ASSUME NEW e, ring' = Append(ring, e)
      PROVE  Longer(r, q, n, e)
  BY <1>1, <1>3, <1>5 DEF Longer
<1>6. CASE Unmoved
  <2>1. g[s][dir] = z
    BY <1>6 DEF Unmoved, Counted, Dirs
  <2>2. CASE ring' = ring
    BY <2>1, <2>2, <1>4
  <2>3. ASSUME NEW e, ring' = Append(ring, e), e.dir = "close" PROVE Pending(q, s, dir, a, z)
    <3>1. Longer(r, q, n, e)
      BY <1>5, <2>3
    <3>2. Arrives(e, s, dir, z, z)
      BY <2>3 DEF Dirs, Arrives
    <3>3. z <= z
      OBVIOUS
    <3> QED BY <3>1, <3>2, <3>3, <1>4, PendingGrown
  <2>4. z <= z
    OBVIOUS
  <2> QED BY <2>1, <2>2, <2>3, <2>4, <1>4, <1>6 DEF Unmoved
<1>7. ASSUME NEW t \in Sessions, NEW d \in Dirs, NEW k \in Nat, NEW e \in EventType,
             Moved(t, d, k, e)
      PROVE  /\ Pending(q, s, dir, a, g[s][dir]) /\ g[s][dir] <= Len(Plain(dir)[s])
             /\ z <= g[s][dir]
  <2>1. Longer(r, q, n, e)
    BY <1>5, <1>7 DEF Moved
  <2>2. e.of = t /\ e.dir = d /\ e.read = k /\ g = [f EXCEPT ![t][d] = f[t][d] + k]
    BY <1>7 DEF Moved
  <2>3. CASE t = s /\ d = dir
    <3>1. g[s][dir] = z + k
      BY <2>2, <2>3, <1>1 DEF SessionType, Dirs
    <3>2. Portion(e, s, dir, z, z + k) /\ z + k <= Len(Plain(dir)[s])
      BY <1>7, <2>3 DEF Moved
    <3>a. PICK y \in Nat : y = z + k
      OBVIOUS
    <3>3. z <= y /\ y - z = k
      BY <3>a
    <3>4. Arrives(e, s, dir, z, y)
      BY <3>2, <3>3, <3>a, <2>2, <2>3 DEF Arrives
    <3>5. Pending(q, s, dir, a, y)
      BY <3>3, <3>4, <2>1, <1>4, PendingGrown
    <3> QED BY <3>1, <3>2, <3>a, <3>3, <3>5
  <2>4. CASE ~(t = s /\ d = dir)
    <3>1. g[s][dir] = z
      BY <2>2, <2>4, <1>1 DEF SessionType, Dirs
    <3>2. Arrives(e, s, dir, z, z)
      BY <2>2, <2>4 DEF Arrives
    <3>3. z <= z
      OBVIOUS
    <3>4. Pending(q, s, dir, a, z)
      BY <3>2, <3>3, <2>1, <1>4, PendingGrown
    <3> QED BY <3>1, <3>3, <3>4, <1>4
  <2> QED BY <2>3, <2>4
<1> QED BY <1>6, <1>7 DEF Motion

LEMMA WholeLater ==
  ASSUME NEW entry, NEW s \in Sessions, NEW dir, NEW conn, NEW a \in Nat, NEW z \in Nat, a <= z,
         IsWhole(entry, s, dir, conn, a)
  PROVE  IsWhole(entry, s, dir, conn, z)
<1>1. PICK x \in Within(Plain(dir)[s], 0, a) :
        Plain(dir)[s][x + 1].m # 0 /\ entry = Entry(dir, conn, MsgAt(Plain(dir)[s], x))
  BY DEF IsWhole
<1>2. x \in 0 .. a /\ Begin(Plain(dir)[s], x) /\ End(Plain(dir)[s], x) <= a
  BY DEF Within
<1>3. End(Plain(dir)[s], x) \in x + 1 .. Len(Plain(dir)[s]) /\ Len(Plain(dir)[s]) \in Nat
  BY <1>2, BeginFacts, PlainIsWellFormed
<1>4. x \in Within(Plain(dir)[s], 0, z)
  BY <1>2, <1>3 DEF Within
<1> QED BY <1>1, <1>4 DEF IsWhole

LEMMA SaysLater ==
  ASSUME NEW entry, NEW s \in Sessions, NEW dir, NEW conn, NEW a \in Nat, NEW z \in Nat, a <= z,
         z <= Len(Plain(dir)[s]), NEW v, NEW w, v \subseteq w, Says(entry, s, dir, conn, a, v)
  PROVE  Says(entry, s, dir, conn, z, w)
<1>1. CASE dir \in v
  <2>1. PICK units \in Seq(Prior(s, dir, a)) : entry = Entry(dir, conn, units)
    BY <1>1 DEF Says, IsScrap
  <2>2. units \in Seq(Prior(s, dir, z))
    BY PriorGrows
  <2> QED BY <2>1, <2>2, <1>1 DEF Says, IsScrap
<1>2. CASE dir \notin v
  <2>1. IsWhole(entry, s, dir, conn, z)
    BY <1>2, WholeLater DEF Says
  <2>2. IsScrap(entry, s, dir, conn, z)
    BY <2>1, WholeIsScrap
  <2> QED BY <2>1, <2>2 DEF Says
<1> QED BY <1>1, <1>2

LEMMA SoundGrown ==
  ASSUME NEW G, NEW f, NEW g, NEW U, NEW V, Sound(G, f, U), U \subseteq V,
         \A s \in Sessions, dir \in Dirs :
           /\ f[s][dir] \in Nat /\ g[s][dir] \in Nat /\ f[s][dir] <= g[s][dir]
           /\ g[s][dir] <= Len(Plain(dir)[s])
  PROVE  Sound(G, g, V)
<1> SUFFICES ASSUME NEW entry \in G
             PROVE  \E s \in Sessions, dir \in Dirs : \E conn :
                      /\ Says(entry, s, dir, conn, g[s][dir], Blind(V, s))
                      /\ (s \in Clients => conn = s)
  BY DEF Sound
<1>1. PICK s \in Sessions, dir \in Dirs : \E conn :
        Says(entry, s, dir, conn, f[s][dir], Blind(U, s)) /\ (s \in Clients => conn = s)
  BY DEF Sound
<1>2. PICK conn : Says(entry, s, dir, conn, f[s][dir], Blind(U, s)) /\ (s \in Clients => conn = s)
  BY <1>1
<1>3. PICK a \in Nat, z \in Nat : a = f[s][dir] /\ z = g[s][dir]
  OBVIOUS
<1>4. Blind(U, s) \subseteq Blind(V, s) /\ a <= z /\ z <= Len(Plain(dir)[s])
  BY <1>3 DEF Blind
<1>5. Says(entry, s, dir, conn, z, Blind(V, s))
  BY <1>2, <1>3, <1>4, SaysLater
<1> QED BY <1>2, <1>3, <1>5

\* A step of the probes leaves the daemon's connections as they are.
LEMMA StreamsGrown ==
  ASSUME NEW r, NEW q, NEW f, NEW g, NEW C, NEW L, NEW G, NEW at, NEW own, NEW U,
         Streams(r, f, C, L, G, at, own, U), Flow(q, g, at),
         \/ /\ q = r
            /\ \A t \in Sessions :
                 f[t].st \in {"open", "closed"} => g[t].st = f[t].st /\ g[t].ptr = f[t].ptr
         \/ \E n \in Nat, s \in Sessions : \E e : Grown(r, q, n, e, s, f, g)
  PROVE  Streams(q, g, C, L, G, at, own, U)
<1>1. ASSUME NEW p, NEW t \in Sessions, HoldsAt(r, f, p, t) PROVE HoldsAt(q, g, p, t)
  BY <1>1, HoldsGrown DEF HoldsAt
<1>2. ASSUME NEW t \in Sessions, Over(r, f, t) PROVE Over(q, g, t)
  <2>1. ASSUME NEW n \in Nat, NEW s \in Sessions, NEW e, Grown(r, q, n, e, s, f, g)
        PROVE  Over(q, g, t)
    BY <2>1, <1>2, OverGrown
  <2>2. CASE q = r /\ \A u \in Sessions : f[u].st \in {"open", "closed"} => g[u].st = f[u].st
    BY <2>2, <1>2 DEF Over
  <2> QED BY <2>1, <2>2
<1>3. ASSUME NEW p \in Ptrs, C[p] # None PROVE KeptAt(q, g, C[p], L, at, p, own[p], U)
  BY <1>1, <1>3 DEF KeptAt, Streams
<1>4. ASSUME NEW s \in Sessions PROVE Phase(q, g, C, at, own, s)
  BY <1>2, <1>4 DEF Phase, Streams
<1> QED BY <1>3, <1>4 DEF Streams

LEMMA HookCaptures ==
  ASSUME IInv, Capturing, Orderly, Probes
  PROVE  Capturing'
<1>1. /\ connections' = connections /\ poisonLogs' = poisonLogs
      /\ logged' = logged /\ blocked' = blocked /\ unseen' = unseen
  BY DEF Probes, daemonVars
<1>2. PICK r, f, q, g : r = ring /\ f = sess /\ q = ring' /\ g = sess'
  OBVIOUS
<1>3. NotRead' /\ Motion
  <2>1. CASE \E w \in Workers : Worker(w)
    BY <2>1, WorkerMotion DEF Capturing, Orderly
  <2>2. CASE Evict
    <3>1. sess' = sess /\ ring' = ring
      BY <2>2 DEF Evict
    <3> QED BY <3>1 DEF Capturing, NotRead, Motion, Unmoved, Counted
  <2> QED BY <2>1, <2>2 DEF Probes, HookNext
<1>4. \/ /\ q = r
         /\ \A t \in Sessions :
              f[t].st \in {"open", "closed"} => g[t].st = f[t].st /\ g[t].ptr = f[t].ptr
      \/ \E n \in Nat, s \in Sessions : \E e : Grown(r, q, n, e, s, f, g)
  <2>1. ASSUME Quiet PROVE <1>4!1
    BY <2>1, <1>2 DEF Quiet, Stays
  <2>2. ASSUME NEW s \in Sessions, NEW e \in EventType, NEW n \in Nat, Hooked(s, e, n)
        PROVE  Grown(r, q, n, e, s, f, g)
    <3>1. /\ sess[s].st = "open" /\ e.of = s /\ e.ssl = sess[s].ptr
          /\ n = Len(ring) /\ Len(ring') = n + 1 /\ ring'[n + 1] = e
          /\ \A i \in 1 .. n : ring'[i] = ring[i]
          /\ \A t \in Sessions \ {s} : Stays(t)
          /\ \/ e.dir # "close" /\ Stays(s)
             \/ e.dir = "close" /\ sess'[s].st = "closed"
      BY <2>2 DEF Hooked, Sent
    <3>2. sess[s].ptr \in Ptrs
      BY <3>1 DEF IInv, Exclusive, Placed
    <3> QED BY <3>1, <3>2, <1>2 DEF Grown, Stays, Orderly, Unshared
  <2>3. CASE \E w \in Workers : Worker(w)
    BY <2>1, <2>2, <2>3, WorkerEffect DEF Orderly
  <2>4. CASE Evict
    <3>1. Quiet
      BY <2>4 DEF Evict, Quiet, Stays
    <3> QED BY <3>1, <2>1
  <2> QED BY <2>3, <2>4 DEF Probes, HookNext
<1>5. Ordered(r) /\ Owned(r, f)
  BY <1>2 DEF Capturing
<1>6. Ordered(q) /\ Owned(q, g)
  <2>1. CASE <1>4!1
    BY <2>1, <1>5 DEF Owned
  <2>2. ASSUME NEW n \in Nat, NEW s \in Sessions, NEW e, Grown(r, q, n, e, s, f, g)
        PROVE  Ordered(q) /\ Owned(q, g)
    BY <2>2, <1>5, OrderGrown
  <2> QED BY <2>1, <2>2, <1>4
<1>7. PICK at, own : Streams(r, f, connections, SetOf(poisonLogs), logged, at, own, unseen)
  BY <1>2 DEF Capturing
<1>8. /\ Flow(q, g, at) /\ \A s \in Sessions, dir \in Dirs : f[s][dir] <= g[s][dir]
  <2>1. at \in [Sessions -> [Dirs -> Nat]] /\ Flow(ring, sess, at)
    BY <1>2, <1>7 DEF Streams
  <2>2. /\ Flow(ring', sess', at)
        /\ \A s \in Sessions, dir \in Dirs : sess[s][dir] <= sess'[s][dir]
    BY <2>1, <1>3, FlowMoved
  <2> QED BY <2>2, <1>2
<1>9. Streams(q, g, connections, SetOf(poisonLogs), logged, at, own, unseen)
  BY <1>4, <1>7, <1>8, StreamsGrown
<1>10. Sound(logged, g, unseen)
  <2>1. IInv'
    BY HookStep DEF Probes
  <2>2. sess \in [Sessions -> SessionType] /\ sess' \in [Sessions -> SessionType]
    BY <2>1 DEF IInv, StateType
  <2>3. \A s \in Sessions, dir \in Dirs : f[s][dir] \in Nat /\ g[s][dir] \in Nat
    BY <2>2, <1>2 DEF SessionType, Dirs
  <2>4. Sound(logged, f, unseen)
    BY <1>2 DEF Capturing
  <2>5. \A s \in Sessions, dir \in Dirs : g[s][dir] <= Len(Plain(dir)[s])
    BY <1>8 DEF Flow
  <2> QED BY <2>3, <2>4, <2>5, <1>8, SoundGrown
<1>11. SetOf(poisonLogs)' = SetOf(poisonLogs)
  BY <1>1 DEF SetOf
<1>12. \E a, o : Streams(ring, sess, connections, SetOf(poisonLogs), logged, a, o, unseen)'
  BY <1>1, <1>2, <1>9, <1>11
<1> QED BY <1>1, <1>2, <1>3, <1>6, <1>10, <1>12 DEF Capturing

-----------------------------------------------------------------------------
(* A turn of the loop in Main.                                              *)

\* A close event: nothing is kept of its session, which is over.
LEMMA StreamsClosed ==
  ASSUME NEW r, NEW q, NEW n \in Nat, Shifted(r, q, n), NEW f, NEW C, NEW D, NEW L, NEW G,
         NEW at, NEW own, NEW U, Streams(r, f, C, L, G, at, own, U), Ordered(r), Owned(r, f),
         f \in [Sessions -> SessionType],
         r[1].dir = "close", r[1].ssl \in Ptrs, r[1].of \in Sessions,
         D[r[1].ssl] = None, \A p \in Ptrs \ {r[1].ssl} : D[p] = C[p]
  PROVE  Streams(q, f, D, L, G, at, own, U)
<1>1. Len(r) = n + 1
  BY DEF Shifted
<1>2. ASSUME NEW p \in Ptrs, D[p] # None PROVE KeptAt(q, f, D[p], L, at, p, own[p], U)
  <2>1. p # r[1].ssl /\ KeptAt(r, f, C[p], L, at, p, own[p], U) /\ D[p] = C[p]
    BY <1>2 DEF Streams
  <2>2. HoldsAt(q, f, p, own[p])
    BY <2>1, HoldsShifted DEF KeptAt
  <2> QED BY <2>1, <2>2 DEF KeptAt
<1>3. ASSUME NEW s \in Sessions PROVE Phase(q, f, D, at, own, s)
  <2>1. CASE s = r[1].of
    BY <2>1, OverNow DEF Phase
  <2>2. CASE s # r[1].of
    <3>1. ASSUME NEW p \in Ptrs, C[p] # None, own[p] = s PROVE D[p] # None
      <4>1. HoldsAt(r, f, p, s)
        BY <3>1 DEF Streams, KeptAt
      <4>2. p # r[1].ssl
        BY <4>1, <2>2, <1>1, HolderOfFirst
      <4> QED BY <4>2, <3>1
    <3>2. Over(r, f, s) => Over(q, f, s)
      BY OverShifted
    <3> QED BY <3>1, <3>2 DEF Streams, Phase
  <2> QED BY <2>1, <2>2
<1>4. Flow(q, f, at)
  <2> SUFFICES ASSUME NEW s \in Sessions, NEW dir \in Dirs
               PROVE  Pending(q, s, dir, at[s][dir], f[s][dir]) /\ f[s][dir] <= Len(Plain(dir)[s])
    BY DEF Flow
  <2>1. Pending(r, s, dir, at[s][dir], f[s][dir]) /\ f[s][dir] <= Len(Plain(dir)[s])
    BY DEF Streams, Flow
  <2> PICK a \in Nat, z \in Nat : a = at[s][dir] /\ z = f[s][dir]
    BY DEF Streams, SessionType, Dirs
  <2>2. Pending(q, s, dir, a, z)
    BY <2>1, PendingTaken DEF Dirs, Advances
  <2> QED BY <2>1, <2>2
<1> QED BY <1>2, <1>3, <1>4 DEF Streams

\* What the event has brings its session to b.
LEMMA FlowTaken ==
  ASSUME NEW r, NEW q, NEW n \in Nat, Shifted(r, q, n), NEW f \in [Sessions -> SessionType],
         NEW at \in [Sessions -> [Dirs -> Nat]], Flow(r, f, at),
         NEW s \in Sessions, s = r[1].of, NEW dir \in Dirs, dir = r[1].dir
  PROVE  \E b \in [Dirs -> Nat] :
           /\ Comes(r[1], s, dir, at[s], b) /\ Flow(q, f, [at EXCEPT ![s] = b])
           /\ \A d \in Dirs : b[d] <= f[s][d]
<1>1. \A t \in Sessions : \A d \in Dirs : at[t][d] \in Nat /\ f[t][d] \in Nat
  BY DEF SessionType, Dirs
<1>2. \A t \in Sessions : \A d \in Dirs :
        Pending(r, t, d, at[t][d], f[t][d]) /\ f[t][d] <= Len(Plain(d)[t])
  BY DEF Flow
<1>3. PICK c \in at[s][dir] .. f[s][dir] :
        /\ Portion(r[1], s, dir, at[s][dir], c)
        /\ Pending(q, s, dir, c, f[s][dir])
  <2> PICK a \in Nat, z \in Nat : a = at[s][dir] /\ z = f[s][dir]
    BY <1>1
  <2>1. Pending(r, s, dir, a, z)
    BY <1>2
  <2>2. \E c \in a .. z : Portion(r[1], s, dir, a, c) /\ Pending(q, s, dir, c, z)
    <3>1. Advances(r, q, s, dir, a, z)
      BY <2>1, PendingTaken
    <3> QED BY <3>1 DEF Advances
  <2> QED BY <2>2
<1>4. PICK b : b = [at[s] EXCEPT ![dir] = c]
  OBVIOUS
<1>5. c \in Nat /\ at[s][dir] <= c /\ c <= f[s][dir]
  BY <1>1
<1>6. b \in [Dirs -> Nat] /\ b[dir] = c /\ \A d \in Dirs \ {dir} : b[d] = at[s][d]
  BY <1>4, <1>5
<1>7. \A t \in Sessions : \A d \in Dirs : (t = s /\ d = dir) \/ Pending(q, t, d, at[t][d], f[t][d])
  BY <1>1, <1>2, PendingTaken DEF Advances
<1>8. \A d \in Dirs : b[d] <= f[s][d]
  <2> TAKE d \in Dirs
  <2>1. CASE d = dir
    BY <2>1, <1>5, <1>6
  <2>2. CASE d # dir
    <3>1. at[s][d] \in 0 .. f[s][d]
      <4>1. Len(r) \in Nat
        BY DEF Shifted
      <4> QED BY <4>1, <1>2, PendingBound
    <3> QED BY <3>1, <2>2, <1>1, <1>6
  <2> QED BY <2>1, <2>2
<1>9. \A d \in Dirs : b[d] <= Len(Plain(d)[s])
  <2> TAKE d \in Dirs
  <2>1. Len(Plain(d)[s]) \in Nat
    BY PlainIsWellFormed DEF WellFormed
  <2>2. b[d] \in Nat /\ f[s][d] \in Nat /\ b[d] <= f[s][d] /\ f[s][d] <= Len(Plain(d)[s])
    BY <1>1, <1>2, <1>6, <1>8
  <2> QED BY <2>1, <2>2
<1>10. Comes(r[1], s, dir, at[s], b)
  <2>1. Brings(s, dir, r[1].data, at[s], b)
    BY <1>3, <1>5, <1>6, <1>9 DEF Brings, Portion
  <2>2. /\ CutShort(r[1]) => r[1].len = MaxBuf
        /\ CutShort(r[1]) \/ InFull(s, dir, r[1].data, at[s], b)
    BY <1>3, <1>6 DEF Portion, InFull
  <2> QED BY <2>1, <2>2 DEF Comes
<1>11. PICK new : new = [at EXCEPT ![s] = b]
  OBVIOUS
<1>12. Flow(q, f, new)
  <2> SUFFICES ASSUME NEW t \in Sessions, NEW d \in Dirs
               PROVE  Pending(q, t, d, new[t][d], f[t][d]) /\ f[t][d] <= Len(Plain(d)[t])
    BY DEF Flow
  <2>1. CASE t = s /\ d = dir
    BY <2>1, <1>2, <1>3, <1>6, <1>11
  <2>2. CASE ~(t = s /\ d = dir)
    <3>1. new[t][d] = at[t][d]
      BY <2>2, <1>6, <1>11
    <3> QED BY <3>1, <2>2, <1>2, <1>7
  <2> QED BY <2>1, <2>2
<1> QED BY <1>6, <1>8, <1>10, <1>11, <1>12

\* The connection at the address of the oldest event is of the event's session, and
\* of a session that has none there nothing was taken.
Belongs(r, f, C, L, at, own, p, s, U) ==
  IF C[p] = None THEN at[s]["recv"] = 0 /\ at[s]["send"] = 0
  ELSE own[p] = s /\ KeptAt(r, f, C[p], L, at, p, s, U)

LEMMA FirstBelongs ==
  ASSUME NEW r, NEW n \in Nat, Len(r) = n + 1, NEW f, NEW C, NEW L, NEW G, NEW at, NEW own, NEW U,
         Streams(r, f, C, L, G, at, own, U), Ordered(r), Owned(r, f),
         NEW s \in Sessions, s = r[1].of, NEW p \in Ptrs, p = r[1].ssl
  PROVE  Belongs(r, f, C, L, at, own, p, s, U)
<1>1. CASE C[p] # None
  <2>1. KeptAt(r, f, C[p], L, at, p, own[p], U)
    BY <1>1 DEF Streams
  <2>2. own[p] = s
    BY <2>1, HolderOfFirst DEF KeptAt
  <2> QED BY <1>1, <2>1, <2>2 DEF Belongs
<1>2. CASE C[p] = None
  <2>1. ASSUME NEW v \in Ptrs, C[v] # None, own[v] = s PROVE FALSE
    <3>1. HoldsAt(r, f, v, s)
      BY <2>1 DEF Streams, KeptAt
    <3>2. p = v
      BY <3>1, OneHold
    <3> QED BY <3>2, <2>1, <1>2
  <2>2. ~Over(r, f, s)
    <3>1. 1 \in 1 .. n + 1
      OBVIOUS
    <3> QED BY <3>1 DEF Over
  <2> QED BY <1>2, <2>1, <2>2 DEF Belongs, Streams, Phase
<1> QED BY <1>1, <1>2

\* A message that has come lies before a or ends after it.
LEMMA LaterSplit ==
  ASSUME NEW s \in Sessions, NEW dir, NEW conn, NEW a \in Nat, NEW z \in Nat
  PROVE  Later(s, dir, conn, 0, z)
           \subseteq Later(s, dir, conn, 0, a) \cup Later(s, dir, conn, a, z)
<1> PICK P : P = Plain(dir)[s]
  OBVIOUS
<1>1. ASSUME NEW x \in Within(P, 0, z), ~(End(P, x) > a) PROVE x \in Within(P, 0, a)
  <2>1. x \in 0 .. z /\ Begin(P, x)
    BY DEF Within
  <2>2. End(P, x) \in x + 1 .. Len(P) /\ Len(P) \in Nat
    BY <2>1, BeginFacts, PlainIsWellFormed
  <2>3. End(P, x) <= a /\ x \in 0 .. a
    BY <1>1, <2>1, <2>2
  <2> QED BY <2>1, <2>3 DEF Within
<1> QED BY <1>1 DEF Later

\* An event of s with plaintext leaves connection k and the log H.
Taking(r, C, D, L, M, G, H, at, s, p, b, k, U, V) ==
  /\ s = r[1].of /\ p = r[1].ssl /\ r[1].dir # "close"
  /\ k # None /\ Holds(k, s, b, Blind(V, s)) /\ (k.poisoned # {} /\ s \in Clients => s \in M)
  /\ D[p] = k /\ \A v \in Ptrs \ {p} : D[v] = C[v]
  /\ L \subseteq M /\ G \subseteq H
  /\ U \subseteq V /\ \A t \in Sessions \ {s} : Blind(V, t) = Blind(U, t)
  /\ s \in Clients /\ k.poisoned = {} /\ "recv" \notin Blind(V, s) =>
       Later(s, "recv", s, at[s]["recv"], b["recv"]) \subseteq H

LEMMA StreamsTaken ==
  ASSUME NEW r, NEW q, NEW n \in Nat, Shifted(r, q, n), NEW f, NEW C, NEW D, NEW L, NEW M,
         NEW G, NEW H, NEW at, NEW own, NEW U, NEW V, Streams(r, f, C, L, G, at, own, U),
         Ordered(r), Owned(r, f),
         NEW s \in Sessions, NEW p \in Ptrs, NEW b \in [Dirs -> Nat], NEW k,
         Flow(q, f, [at EXCEPT ![s] = b]), Taking(r, C, D, L, M, G, H, at, s, p, b, k, U, V)
  PROVE  Streams(q, f, D, M, H, [at EXCEPT ![s] = b], [own EXCEPT ![p] = s], V)
<1>a. /\ s = r[1].of /\ p = r[1].ssl /\ r[1].dir # "close"
      /\ k # None /\ Holds(k, s, b, Blind(V, s)) /\ (k.poisoned # {} /\ s \in Clients => s \in M)
      /\ D[p] = k /\ \A v \in Ptrs \ {p} : D[v] = C[v]
      /\ L \subseteq M /\ G \subseteq H
      /\ U \subseteq V /\ \A t \in Sessions \ {s} : Blind(V, t) = Blind(U, t)
      /\ s \in Clients /\ k.poisoned = {} /\ "recv" \notin Blind(V, s) =>
           Later(s, "recv", s, at[s]["recv"], b["recv"]) \subseteq H
  BY DEF Taking
<1>1. Len(r) = n + 1
  BY DEF Shifted
<1>2. PICK new, o : new = [at EXCEPT ![s] = b] /\ o = [own EXCEPT ![p] = s]
  OBVIOUS
<1>3. /\ new \in [Sessions -> [Dirs -> Nat]] /\ o \in [Ptrs -> Sessions \cup {None}]
      /\ new[s] = b /\ \A t \in Sessions \ {s} : new[t] = at[t]
      /\ o[p] = s /\ \A v \in Ptrs \ {p} : o[v] = own[v]
  BY <1>2 DEF Streams
<1>4. ASSUME NEW v \in Ptrs, v # p, C[v] # None
      PROVE  KeptAt(r, f, C[v], L, at, v, own[v], U) /\ own[v] # s
  <2>1. KeptAt(r, f, C[v], L, at, v, own[v], U)
    BY <1>4 DEF Streams
  <2>2. HoldsAt(r, f, v, own[v])
    BY <2>1 DEF KeptAt
  <2>3. own[v] = s => p = v
    BY <2>2, <1>a, <1>1, OneHold
  <2> QED BY <2>1, <2>3, <1>4
<1>5. ASSUME NEW v \in Ptrs, D[v] # None PROVE KeptAt(q, f, D[v], M, new, v, o[v], V)
  <2>1. CASE v = p
    <3>1. HoldsAt(r, f, p, s)
      BY <1>a, <1>1, HoldsNow
    <3>2. HoldsAt(q, f, p, s)
      BY <3>1, <1>a, HoldsShifted
    <3> QED BY <3>2, <2>1, <1>3, <1>a DEF KeptAt
  <2>2. CASE v # p
    <3>1. D[v] = C[v] /\ KeptAt(r, f, C[v], L, at, v, own[v], U) /\ own[v] # s /\ o[v] = own[v]
      BY <2>2, <1>3, <1>4, <1>5, <1>a
    <3>2. HoldsAt(q, f, v, own[v])
      BY <3>1, <1>a, HoldsShifted DEF KeptAt
    <3>3. own[v] \in Sessions \ {s}
      BY <3>1 DEF KeptAt
    <3>4. Holds(D[v], own[v], new[own[v]], Blind(V, own[v]))
      BY <3>1, <3>3, <1>3, <1>a DEF KeptAt
    <3> QED BY <3>1, <3>2, <3>3, <3>4, <1>a DEF KeptAt
  <2> QED BY <2>1, <2>2
<1>6. ASSUME NEW t \in Sessions PROVE Phase(q, f, D, new, o, t)
  <2>1. CASE t = s
    BY <2>1, <1>3, <1>a DEF Phase
  <2>2. CASE t # s
    <3>1. ASSUME NEW v \in Ptrs, C[v] # None, own[v] = t PROVE D[v] # None /\ o[v] = t
      <4>1. v # p
        <5>1. HoldsAt(r, f, v, t)
          BY <3>1 DEF Streams, KeptAt
        <5> QED BY <5>1, <2>2, <1>a, <1>1, HolderOfFirst
      <4> QED BY <4>1, <3>1, <1>3, <1>a
    <3>2. Over(r, f, t) => Over(q, f, t)
      BY OverShifted
    <3>3. Phase(r, f, C, at, own, t) /\ new[t] = at[t]
      BY <2>2, <1>3 DEF Streams
    <3> QED BY <3>1, <3>2, <3>3 DEF Phase
  <2> QED BY <2>1, <2>2
<1>7. ASSUME NEW c \in Clients \ M, "recv" \notin Blind(V, c)
      PROVE  Later(c, "recv", c, 0, new[c]["recv"]) \subseteq H
  <2>1. c \in Sessions /\ Later(c, "recv", c, 0, at[c]["recv"]) \subseteq H
    <3>1. "recv" \notin Blind(U, c)
      BY <1>7, <1>a DEF Blind
    <3> QED BY <3>1, <1>a, ClientsAreSessions DEF Streams, Caught
  <2>2. CASE c = s
    <3>1. k.poisoned = {}
      BY <2>2, <1>a
    <3>2. Later(s, "recv", s, at[s]["recv"], b["recv"]) \subseteq H
      BY <3>1, <2>2, <1>7, <1>a
    <3>3. at[s]["recv"] \in Nat /\ b["recv"] \in Nat
      BY DEF Streams, Dirs
    <3>4. Later(s, "recv", s, 0, b["recv"])
            \subseteq Later(s, "recv", s, 0, at[s]["recv"])
                        \cup Later(s, "recv", s, at[s]["recv"], b["recv"])
      BY <3>3, LaterSplit
    <3> QED BY <2>1, <2>2, <3>2, <3>4, <1>3
  <2>3. CASE c # s
    BY <2>1, <2>3, <1>3
  <2> QED BY <2>2, <2>3
<1> QED BY <1>2, <1>3, <1>5, <1>6, <1>7 DEF Streams, Caught

\* A turn adds entries of one client to the log, and blames it when one is bad.
LEMMA BlamedMore ==
  ASSUME NEW G, NEW B, Blamed(G, B), NEW N, NEW conn, \A entry \in N : entry.conn = conn
  PROVE  Blamed(G \cup N, IF HasBad(N) THEN B \cup {conn} ELSE B)
<1>1. \A entry \in N : \A c : IsBad(entry, c) => c = conn /\ HasBad(N)
  BY DEF IsBad, HasBad
<1>2. HasBad(N) => \E entry \in N : IsBad(entry, conn)
  BY DEF IsBad, HasBad
<1> PICK A : A = IF HasBad(N) THEN B \cup {conn} ELSE B
  OBVIOUS
<1>3. ASSUME NEW entry \in G \cup N, NEW c, IsBad(entry, c) PROVE c \in A
  BY <1>1, <1>3 DEF Blamed
<1>4. ASSUME NEW c \in A PROVE \E entry \in G \cup N : IsBad(entry, c)
  <2>1. c \in B \/ (HasBad(N) /\ c = conn)
    OBVIOUS
  <2>2. CASE c \in B
    BY <2>2 DEF Blamed
  <2> QED BY <2>1, <2>2, <1>2
<1> QED BY <1>3, <1>4 DEF Blamed

LEMMA LogLonger ==
  ASSUME NEW T, NEW log \in Seq(T), NEW c \in T
  PROVE  /\ Append(log, c) \in Seq(T)
         /\ SetOf(log) \subseteq SetOf(Append(log, c)) /\ c \in SetOf(Append(log, c))
<1>1. PICK new : new = Append(log, c)
  OBVIOUS
<1>2. PICK n \in Nat : n = Len(log)
  OBVIOUS
<1>3. new \in Seq(T) /\ Len(new) = n + 1 /\ new[n + 1] = c /\ \A i \in 1 .. n : new[i] = log[i]
  BY <1>1, <1>2
<1>4. n + 1 \in 1 .. n + 1 /\ \A i \in 1 .. n : i \in 1 .. n + 1
  OBVIOUS
<1> QED BY <1>1, <1>2, <1>3, <1>4 DEF SetOf

LEMMA TurnCaptures ==
  ASSUME NoneIsNoConnection, IInv, Capturing, Orderly, Daemon
  PROVE  Capturing'
<1>1. PICK e \in EventType, n \in Nat : Turned(e, n)
  BY TurnEffect DEF Capturing
<1>2. /\ Len(ring) = n + 1 /\ Len(ring') = n /\ ring[1] = e
      /\ \A i \in 1 .. n : ring'[i] = ring[i + 1]
      /\ sess' = sess /\ connections' = [v \in Ptrs |-> connections'[v]]
      /\ \A v \in Ptrs \ {e.ssl} : connections'[v] = connections[v]
      /\ e.ssl \in Ptrs /\ e.dir = "close" => connections'[e.ssl] = None
  BY <1>1 DEF Turned
<1>3. PICK r, q, f, C, D : r = ring /\ q = ring' /\ f = sess /\ C = connections /\ D = connections'
  OBVIOUS
<1>4. Shifted(r, q, n) /\ r[1] = e /\ Len(r) = n + 1
  BY <1>2, <1>3 DEF Shifted
<1>5. Ordered(r) /\ Owned(r, f)
  BY <1>3 DEF Capturing
<1>6. Ordered(q) /\ Owned(q, f)
  BY <1>4, <1>5, OrderShifted
<1>7. 1 \in 1 .. n + 1
  OBVIOUS
<1>8. PICK s \in Sessions, p \in Ptrs : s = e.of /\ p = e.ssl
  BY <1>4, <1>5, <1>7 DEF Owned
<1>9. PICK L, G : L = SetOf(poisonLogs) /\ G = logged
  OBVIOUS
<1>z. PICK U, V : U = unseen /\ V = unseen'
  OBVIOUS
<1>10. PICK at, own : Streams(r, f, C, L, G, at, own, U)
  BY <1>3, <1>9, <1>z DEF Capturing
<1>11. f \in [Sessions -> SessionType]
  BY <1>3 DEF IInv, StateType
<1>12. e = Head(ring)
  BY <1>2 DEF IInv, StateType
<1>13. NotRead'
  BY <1>2 DEF Capturing, NotRead
<1>14. CASE e.dir = "close"
  <2>1. User!Close(e)
    BY <1>12, <1>14 DEF Daemon, User!ReadRecord, User!HTTP2, User!Undecided, User!BecomesHTTP2,
                         User!HTTP1
  <2>2. /\ logged' = logged /\ blocked' = blocked /\ poisonLogs' = poisonLogs
        /\ unseen' = unseen
    BY <2>1 DEF User!Close
  <2>3. Streams(q, f, D, L, G, at, own, U)
    BY <1>2, <1>3, <1>4, <1>5, <1>8, <1>10, <1>11, <1>14, StreamsClosed
  <2>4. SetOf(poisonLogs)' = L
    BY <1>9, <2>2 DEF SetOf
  <2>5. \E a, o : Streams(ring, sess, connections, SetOf(poisonLogs), logged, a, o, unseen)'
    BY <2>2, <2>3, <2>4, <1>2, <1>3, <1>9, <1>z
  <2> QED BY <2>2, <2>5, <1>2, <1>3, <1>6, <1>13 DEF Capturing
<1>15. CASE e.dir # "close"
  <2>1. PICK dir \in Dirs : dir = e.dir
    BY <1>15 DEF EventType, Dirs
  <2>2. at \in [Sessions -> [Dirs -> Nat]] /\ Flow(r, f, at)
    BY <1>10 DEF Streams
  <2>3. PICK b \in [Dirs -> Nat] :
          /\ Comes(e, s, dir, at[s], b) /\ Flow(q, f, [at EXCEPT ![s] = b])
          /\ \A d \in Dirs : b[d] <= f[s][d]
    BY <2>1, <2>2, <1>4, <1>8, <1>11, FlowTaken
  <2>4. Belongs(r, f, C, L, at, own, p, s, U)
    BY <1>4, <1>5, <1>8, <1>10, FirstBelongs
  <2>5. PICK c : c = User!Connection(e)
    OBVIOUS
  <2>6. Holds(c, s, at[s], Blind(U, s))
    <3>1. IF connections[e.ssl] = None THEN at[s]["recv"] = 0 /\ at[s]["send"] = 0
          ELSE Holds(connections[e.ssl], s, at[s], Blind(U, s))
      BY <2>4, <1>3, <1>8 DEF Belongs, KeptAt
    <3> QED BY <3>1, <2>5, ConnectionHolds
  <2>7. PICK k, N : Took(e, c, k, N, s, at[s], b, Blind(V, s))
    <3>1. Holds(c, s, at[s], Blind(unseen, s)) /\ e.of = s /\ e.dir \in Dirs
      BY <2>1, <2>6, <1>8, <1>z
    <3>2. Comes(e, s, e.dir, at[s], b)
      BY <2>1, <2>3
    <3>3. \E k, N : Took(e, c, k, N, s, at[s], b, Blind(unseen', s))
      BY <3>1, <3>2, <2>5, <1>12, TurnTakes
    <3> QED BY <3>3, <1>z
  <2>z. U \subseteq V /\ \A t \in Sessions \ {s} : Blind(V, t) = Blind(U, t)
    <3>1. unseen' = unseen \/ unseen' = unseen \cup {<<s, dir>>}
      BY <2>1, <1>8, <1>12, <1>15
         DEF Daemon, User!ReadRecord, User!Close, User!HTTP2, User!Undecided,
             User!BecomesHTTP2, User!HTTP1, User!Overlook
    <3> QED BY <3>1, <1>z DEF Blind
  <2>8. /\ Takes(c, k, N, s, e.conn, at[s], b, Blind(V, s))
        /\ connections' = [connections EXCEPT ![p] = k]
        /\ logged' = logged \cup N
        /\ blocked' = IF HasBad(N) THEN blocked \cup {e.conn} ELSE blocked
        /\ poisonLogs' = poisonLogs \/ poisonLogs' = Append(poisonLogs, e.conn)
        /\ k.poisoned # {} /\ ~c.h2logged => poisonLogs' = Append(poisonLogs, e.conn)
    BY <2>7, <1>8 DEF Took
  <2>9. /\ Holds(k, s, b, Blind(V, s)) /\ c.poisoned \subseteq k.poisoned
        /\ \A entry \in N : \E d \in Dirs : Says(entry, s, d, e.conn, b[d], Blind(V, s))
        /\ k.poisoned = {} /\ "recv" \notin Blind(V, s) =>
             Later(s, "recv", e.conn, at[s]["recv"], b["recv"]) \subseteq N
    BY <2>8 DEF Takes
  <2>10. s \in Clients => e.conn = s
    <3>1. e \in SetOf(ring)
      BY <1>2, <1>7 DEF SetOf
    <3> QED BY <3>1, <1>8, <1>15 DEF IInv, Chain, Orderly, Attributed
  <2>11. k # None
    BY <2>9 DEF Holds, KeptOk, NoneIsNoConnection
  <2>12. D[p] = k
    BY <2>8, <1>3 DEF Capturing
  <2>13. PICK M, H : M = SetOf(poisonLogs') /\ H = logged'
    OBVIOUS
  <2>14. e.conn \in Clients \cup {None} /\ poisonLogs \in Seq(Clients \cup {None})
    BY DEF EventType, Capturing
  <2>15. /\ poisonLogs' \in Seq(Clients \cup {None}) /\ L \subseteq M
         /\ poisonLogs' = Append(poisonLogs, e.conn) => e.conn \in M
    <3>1. /\ Append(poisonLogs, e.conn) \in Seq(Clients \cup {None})
          /\ SetOf(poisonLogs) \subseteq SetOf(Append(poisonLogs, e.conn))
          /\ e.conn \in SetOf(Append(poisonLogs, e.conn))
      BY <2>14, LogLonger
    <3> QED BY <3>1, <2>8, <2>13, <2>14, <1>9
  <2>16. ASSUME k.poisoned # {}, s \in Clients PROVE s \in M
    <3>1. CASE c.h2logged
      <4>1. c.poisoned # {}
        BY <3>1, <2>6 DEF Holds, KeptOk
      <4>2. C[p] # None /\ C[p].poisoned # {}
        <5>1. CASE C[p] = None
          <6>1. User!Connection(e).h2logged = FALSE
            BY <5>1, <1>3, <1>8 DEF User!Connection, User!NewConnection
          <6> QED BY <6>1, <3>1, <2>5
        <5>2. CASE C[p] # None
          <6>1. PICK v : c = [C[p] EXCEPT !.fedCut = v]
            BY <5>2, <2>5, <1>3, <1>8 DEF User!Connection
          <6>2. DOMAIN C[p] = Fields
            BY <5>2, <2>4 DEF Belongs, KeptAt, Holds, KeptOk
          <6>3. c.poisoned = C[p].poisoned
            BY <6>1, <6>2, FieldsAre
          <6> QED BY <6>3, <4>1, <5>2
        <5> QED BY <5>1, <5>2
      <4>3. s \in L
        BY <4>2, <2>4, <2>16 DEF Belongs, KeptAt
      <4> QED BY <4>3, <2>15
    <3>2. CASE ~c.h2logged
      BY <3>2, <2>8, <2>10, <2>15, <2>16
    <3> QED BY <3>1, <3>2
  <2>17. PICK new, o : new = [at EXCEPT ![s] = b] /\ o = [own EXCEPT ![p] = s]
    OBVIOUS
  <2>18. Streams(q, f, D, M, H, new, o, V)
    <3>1. G \subseteq H /\ (s \in Clients /\ k.poisoned = {} /\ "recv" \notin Blind(V, s) =>
                              Later(s, "recv", s, at[s]["recv"], b["recv"]) \subseteq H)
      BY <2>8, <2>9, <2>10, <2>13, <1>9
    <3>2. \A v \in Ptrs \ {p} : D[v] = C[v]
      BY <1>2, <1>3, <1>8
    <3>3. s = r[1].of /\ p = r[1].ssl /\ r[1].dir # "close"
      BY <1>4, <1>8, <1>15
    <3>4. Flow(q, f, [at EXCEPT ![s] = b])
      BY <2>3
    <3>5. Taking(r, C, D, L, M, G, H, at, s, p, b, k, U, V)
      BY <3>1, <3>2, <3>3, <2>z, <2>9, <2>11, <2>12, <2>15, <2>16 DEF Taking
    <3> QED BY <3>4, <3>5, <2>17, <1>4, <1>5, <1>10, StreamsTaken
  <2>19. \E a, m : Streams(ring, sess, connections, SetOf(poisonLogs), logged, a, m, unseen)'
    <3>1. Streams(ring', sess', connections', SetOf(poisonLogs'), logged', new, o, unseen')
      BY <2>13, <2>18, <1>2, <1>3, <1>z
    <3>2. SetOf(poisonLogs)' = SetOf(poisonLogs')
      BY DEF SetOf
    <3> QED BY <3>1, <3>2
  <2>20. \A entry \in N : entry.conn = e.conn
    BY <2>9 DEF Says, IsScrap, IsWhole, Entry
  <2>21. Blamed(logged, blocked)'
    <3>1. Blamed(logged \cup N, IF HasBad(N) THEN blocked \cup {e.conn} ELSE blocked)
      BY <2>20, BlamedMore DEF Capturing
    <3> QED BY <3>1, <2>8
  <2>22. Sound(H, f, V)
    <3>1. ASSUME NEW entry \in N
          PROVE  \E t \in Sessions, d \in Dirs : \E conn :
                   Says(entry, t, d, conn, f[t][d], Blind(V, t)) /\ (t \in Clients => conn = t)
      <4>1. PICK d \in Dirs : Says(entry, s, d, e.conn, b[d], Blind(V, s))
        BY <2>9
      <4>2. PICK x \in Nat, z \in Nat : x = b[d] /\ z = f[s][d] /\ x <= z
        BY <2>3, <1>11 DEF SessionType, Dirs
      <4>3. z <= Len(Plain(d)[s])
        BY <4>2, <2>2 DEF Flow
      <4>4. Says(entry, s, d, e.conn, z, Blind(V, s))
        BY <4>1, <4>2, <4>3, SaysLater
      <4> QED BY <4>2, <4>4, <2>10
    <3>2. Sound(G, f, V)
      <4>1. Sound(G, f, U)
        BY <1>3, <1>9, <1>z DEF Capturing
      <4>2. \A t \in Sessions, d \in Dirs :
              f[t][d] \in Nat /\ f[t][d] <= f[t][d] /\ f[t][d] <= Len(Plain(d)[t])
        BY <2>2, <1>11 DEF Flow, SessionType, Dirs
      <4> QED BY <4>1, <4>2, <2>z, SoundGrown
    <3>3. H = G \cup N
      BY <2>8, <2>13, <1>9
    <3> QED BY <3>1, <3>2, <3>3 DEF Sound
  <2>23. Sound(logged, sess, unseen)'
    BY <2>13, <2>22, <1>2, <1>3, <1>z
  <2> QED BY <2>15, <2>19, <2>21, <2>23, <1>2, <1>3, <1>6, <1>13 DEF Capturing
<1> QED BY <1>14, <1>15

LEMMA InitCaptures == CaptureInit => Capturing
<1> SUFFICES ASSUME CaptureInit PROVE Capturing
  OBVIOUS
<1>1. /\ ring = <<>> /\ Len(ring) = 0 /\ connections = [p \in Ptrs |-> None]
      /\ poisonLogs = <<>> /\ logged = {} /\ blocked = {} /\ unseen = {}
      /\ sess = [s \in Sessions |-> Free]
  BY DEF CaptureInit, Init, User!InitSniffer
<1>2. PICK at, own : at = [s \in Sessions |-> [dir \in Dirs |-> 0]] /\ own = [p \in Ptrs |-> None]
  OBVIOUS
<1>3. at \in [Sessions -> [Dirs -> Nat]] /\ own \in [Ptrs -> Sessions \cup {None}]
  BY <1>2
<1>4. \A s \in Sessions : \A dir \in Dirs : at[s][dir] = 0 /\ sess[s][dir] = 0
  BY <1>1, <1>2 DEF Free, Dirs
<1>5. Flow(ring, sess, at)
  <2>1. \A s \in Sessions : \A dir \in Dirs : 0 <= Len(Plain(dir)[s])
    BY PlainIsWellFormed DEF WellFormed
  <2> QED BY <2>1, <1>1, <1>4, PendingInit DEF Flow
<1>6. ASSUME NEW c \in Clients \ SetOf(poisonLogs)
      PROVE  Later(c, "recv", c, 0, at[c]["recv"]) \subseteq logged
  <2>1. c \in Sessions /\ at[c]["recv"] = 0 /\ Len(Plain("recv")[c]) \in Nat
    BY <1>4, ClientsAreSessions, PlainIsWellFormed DEF WellFormed, Dirs
  <2>2. Later(c, "recv", c, 0, 0) = {}
    BY <2>1, NothingLater
  <2> QED BY <2>1, <2>2
<1>7. \A s \in Sessions : Phase(ring, sess, connections, at, own, s)
  BY <1>4 DEF Phase, Dirs
<1>8. Streams(ring, sess, connections, SetOf(poisonLogs), logged, at, own, unseen)
  BY <1>1, <1>3, <1>5, <1>6, <1>7 DEF Streams, Caught
<1>9. NotRead
  BY <1>1 DEF NotRead, Free
<1> QED BY <1>1, <1>8, <1>9 DEF Capturing, Ordered, Owned, Sound, Blamed

\* The loop in Main takes the plaintext of each session in order, up to where it has
\* read, into the connection of that session, and without a gap but where a read of
\* more than MAX_BUF_SIZE - 1 bytes was cut and nothing looked (unseen); as long as
\* the ring buffer has room, nothing was evicted and no two open sessions have one
\* SSL address. MaxCall and MaxBuf are any.
THEOREM CaptureInvariant ==
  ASSUME NoneIsNoConnection
  PROVE  Spec /\ []Orderly => []Capturing
<1>1. IInv /\ Capturing /\ Orderly /\ [Next]_vars => Capturing'
  <2> SUFFICES ASSUME IInv, Capturing, Orderly, [Next]_vars PROVE Capturing'
    OBVIOUS
  <2>1. CASE UNCHANGED vars
    <3>1. /\ ring' = ring /\ sess' = sess /\ connections' = connections
          /\ poisonLogs' = poisonLogs /\ logged' = logged /\ blocked' = blocked
          /\ unseen' = unseen
      BY <2>1 DEF vars, hookVars, daemonVars
    <3>2. SetOf(poisonLogs)' = SetOf(poisonLogs)
      BY <3>1 DEF SetOf
    <3>3. \E at, own : Streams(ring, sess, connections, SetOf(poisonLogs), logged, at, own, unseen)'
      BY <3>1, <3>2 DEF Capturing
    <3> QED BY <3>1, <3>3 DEF Capturing, NotRead
  <2> QED BY <2>1, HookCaptures, TurnCaptures DEF Next
<1> QED BY <1>1, InitCaptures, CaptureRefinesHook, HookInvariant, PTL DEF Spec

\* The place of a message in the plaintext.
LEMMA PlaceOfMessage ==
  ASSUME NEW s \in Sessions, NEW dir, NEW m \in MessagesOf(s, dir), NEW P, P = Plain(dir)[s]
  PROVE  \E x : Begin(P, x) /\ P[x + 1].m = m /\ m # 0
<1>1. WellFormed(P) /\ Len(P) \in Nat
  BY PlainIsWellFormed DEF WellFormed
<1>2. PICK j \in 1 .. Len(P) : P[j].m = m
  BY DEF MessagesOf, SetOf
<1> PICK x : x = Before(P, j)
  OBVIOUS
<1>3. P[j].need \in Nat \ {0} /\ x \in 0 .. Len(P) - P[j].need
  <2>1. /\ P[j].need \in Nat /\ P[j].i \in 1 .. P[j].need
        /\ Before(P, j) \in 0 .. Len(P) - P[j].need
    BY <1>1, UnitPlace
  <2> QED BY <2>1
<1>4. x + 1 \in x + 1 .. x + P[j].need
  BY <1>1, <1>3
<1>5. x + 1 \in 1 .. Len(P) /\ P[x + 1].m = P[j].m /\ Before(P, x + 1) = x
  BY <1>1, <1>4, SameMessage
<1>6. P[x + 1].i = 1
  <2>1. P[x + 1].i = (x + 1) - Before(P, x + 1)
    BY <1>1, <1>5, UnitPlace
  <2> QED BY <2>1, <1>1, <1>3, <1>5
<1>7. x \in 0 .. Len(P) - 1
  BY <1>1, <1>3
<1>8. m # 0
  BY DEF MessagesOf
<1> QED BY <1>2, <1>5, <1>6, <1>7, <1>8 DEF Begin

\* What was logged is a message of a session.
LEMMA EntryIsMessage ==
  ASSUME NEW entry, NEW s \in Sessions, NEW dir, NEW conn, NEW z, IsWhole(entry, s, dir, conn, z)
  PROVE  /\ entry.dir = dir /\ entry.conn = conn
         /\ \E m \in MessagesOf(s, dir) : entry.units = Units(s, dir, m)
<1> PICK P : P = Plain(dir)[s]
  OBVIOUS
<1>1. PICK x \in Within(P, 0, z) : P[x + 1].m # 0 /\ entry = Entry(dir, conn, MsgAt(P, x))
  BY DEF IsWhole
<1>2. Begin(P, x) /\ WellFormed(P)
  BY PlainIsWellFormed DEF Within
<1>3. x + 1 \in 1 .. Len(P)
  BY <1>2, BeginFacts
<1>4. PICK m : m = P[x + 1].m
  OBVIOUS
<1>5. m \in MessagesOf(s, dir)
  BY <1>1, <1>3, <1>4 DEF MessagesOf, SetOf
<1>6. Units(s, dir, m) = MsgAt(P, x)
  BY <1>2, <1>4, UnitsAre
<1> QED BY <1>1, <1>5, <1>6 DEF Entry

\* When the daemon has caught up, a request that nginx has read to its end is logged.
LEMMA ReadIsLogged ==
  ASSUME IInv, Capturing, ring = <<>>,
         NEW c \in Clients \ (GivenUp \cup Overlooked), NEW m \in ReadWhole(c)
  PROVE  \E entry \in logged : /\ entry.dir = "recv" /\ entry.conn = c
                               /\ entry.units = Units(c, "recv", m)
<1>1. PICK at, own : Streams(ring, sess, connections, SetOf(poisonLogs), logged, at, own, unseen)
  BY DEF Capturing
<1>2. /\ c \in Sessions /\ m \in MessagesOf(c, "recv")
      /\ Places(c, "recv", m) \subseteq 1 .. sess[c].recv
  BY ClientsAreSessions DEF ReadWhole
<1>3. PICK P : P = Plain("recv")[c]
  OBVIOUS
<1>4. PICK x : Begin(P, x) /\ P[x + 1].m = m /\ m # 0
  BY <1>2, <1>3, PlaceOfMessage
<1>5. /\ Places(c, "recv", m) = x + 1 .. End(P, x) /\ Units(c, "recv", m) = MsgAt(P, x)
  BY <1>2, <1>3, <1>4, UnitsAre
<1>6. x \in Nat /\ End(P, x) \in x + 1 .. Len(P) /\ Len(P) \in Nat
  BY <1>2, <1>3, <1>4, BeginFacts, PlainIsWellFormed
<1>7. PICK z \in Nat : z = sess[c].recv
  BY <1>2 DEF IInv, StateType, SessionType
<1>8. End(P, x) <= z
  <2>1. End(P, x) \in x + 1 .. End(P, x)
    BY <1>6
  <2>2. End(P, x) \in 1 .. z
    BY <2>1, <1>2, <1>5, <1>7
  <2> QED BY <2>2
<1>9. at[c]["recv"] = z
  <2>1. Pending(ring, c, "recv", at[c]["recv"], sess[c]["recv"])
    BY <1>1, <1>2 DEF Streams, Flow, Dirs
  <2>2. Len(ring) = 0
    OBVIOUS
  <2> QED BY <2>1, <2>2, <1>7, NothingPending
<1>10. x \in Within(P, 0, z) /\ End(P, x) > 0
  BY <1>4, <1>6, <1>8 DEF Within
<1>11. Entry("recv", c, MsgAt(P, x)) \in Later(c, "recv", c, 0, z)
  BY <1>3, <1>4, <1>10 DEF Later
<1>12. Later(c, "recv", c, 0, z) \subseteq logged
  BY <1>1, <1>9 DEF Streams, Caught, GivenUp, Overlooked, Blind
<1> QED BY <1>5, <1>11, <1>12 DEF Entry

\* What ParseRequest and ParseResponse hand on, and what is analysed, blocked on and
\* logged, is one whole message of one session, with that session's own client; in
\* a direction of which a part was cut unseen it is of units of that session that
\* nginx has exchanged, but may be parts of several messages.
THEOREM OnlyWholeMessages ==
  ASSUME NoneIsNoConnection
  PROVE  Spec /\ []Orderly => []WholeMessages
<1>1. Capturing => WholeMessages
  <2> SUFFICES ASSUME Capturing, NEW entry \in logged
               PROVE  \E s \in Sessions :
                        /\ \/ \E m \in MessagesOf(s, entry.dir) :
                                entry.units = Units(s, entry.dir, m)
                           \/ /\ <<s, entry.dir>> \in unseen
                              /\ SetOf(entry.units) \subseteq Exchanged(s, entry.dir)
                        /\ s \in Clients => entry.conn = s
    BY DEF WholeMessages
  <2>1. PICK s \in Sessions, dir \in Dirs : \E conn :
          Says(entry, s, dir, conn, sess[s][dir], Blind(unseen, s)) /\ (s \in Clients => conn = s)
    BY DEF Capturing, Sound
  <2>2. PICK conn :
          Says(entry, s, dir, conn, sess[s][dir], Blind(unseen, s)) /\ (s \in Clients => conn = s)
    BY <2>1
  <2>3. CASE dir \notin Blind(unseen, s)
    <3>1. /\ entry.dir = dir /\ entry.conn = conn
          /\ \E m \in MessagesOf(s, dir) : entry.units = Units(s, dir, m)
      BY <2>2, <2>3, EntryIsMessage DEF Says
    <3> QED BY <2>2, <3>1
  <2>4. CASE dir \in Blind(unseen, s)
    <3>1. PICK units \in Seq(Prior(s, dir, sess[s][dir])) : entry = Entry(dir, conn, units)
      BY <2>2, <2>4 DEF Says, IsScrap
    <3>2. entry.dir = dir /\ entry.conn = conn /\ entry.units = units
      BY <3>1 DEF Entry
    <3>3. SetOf(units) \subseteq Exchanged(s, dir)
      BY <3>1 DEF SetOf, Prior, Exchanged
    <3>4. <<s, dir>> \in unseen
      BY <2>4 DEF Blind
    <3> QED BY <2>2, <3>2, <3>3, <3>4
  <2> QED BY <2>3, <2>4
<1> QED BY <1>1, CaptureInvariant, PTL

\* Every request that nginx has read to its end has been analysed and logged once the
\* daemon has caught up, or logPoison has reported that the connection was given up,
\* or a read of the client was cut unseen (Overlooked), as HTTP/1.1 allows.
THEOREM NothingIsMissed ==
  ASSUME NoneIsNoConnection
  PROVE  Spec /\ []Orderly => []NothingMissed
<1>1. IInv /\ Capturing => NothingMissed
  <2> SUFFICES ASSUME IInv, Capturing PROVE NothingMissed
    OBVIOUS
  <2> QED BY ReadIsLogged DEF NothingMissed
<1> QED BY <1>1, CaptureInvariant, CaptureRefinesHook, HookInvariant, PTL

\* The loop in Main calls AddBlocked for nobody who sent nothing bad, whatever is cut;
\* and for every client whose bad request was read to its end, unless its connection
\* was given up or a read of it was cut unseen; when nginx talks plaintext to its
\* upstreams.
THEOREM BadClientsAreBlocked ==
  ASSUME NoneIsNoConnection, Upstreams = {}
  PROVE  Spec /\ []Orderly => []BadIsBlocked
<1>1. IInv /\ Capturing => BadIsBlocked
  <2> SUFFICES ASSUME IInv, Capturing PROVE BadIsBlocked
    OBVIOUS
  <2>1. ASSUME NEW c \in blocked PROVE \E i \in 1 .. sess[c].recv : In[c][i].bad
    <3>1. PICK entry \in logged : IsBad(entry, c)
      BY DEF Capturing, Blamed
    <3>2. PICK s \in Sessions, dir \in Dirs : \E conn :
            Says(entry, s, dir, conn, sess[s][dir], Blind(unseen, s)) /\ (s \in Clients => conn = s)
      BY DEF Capturing, Sound
    <3>3. PICK conn :
            Says(entry, s, dir, conn, sess[s][dir], Blind(unseen, s)) /\ (s \in Clients => conn = s)
      BY <3>2
    <3>4. PICK z \in Nat : z = sess[s][dir] /\ z <= Len(Plain(dir)[s])
      BY DEF IInv, StateType, SessionType, Dirs, Capturing, Streams, Flow
    <3>5. IsScrap(entry, s, dir, conn, z)
      BY <3>3, <3>4, WholeIsScrap DEF Says
    <3>6. PICK units \in Seq(Prior(s, dir, z)) : entry = Entry(dir, conn, units)
      BY <3>5 DEF IsScrap
    <3>7. entry.dir = dir /\ entry.conn = conn /\ entry.units = units
      BY <3>6 DEF Entry
    <3>8. s = c /\ dir = "recv" /\ User!Detected(units)
      BY <3>1, <3>3, <3>7 DEF IsBad, Sessions
    <3>9. PICK i \in 1 .. Len(units) : units[i].bad
      BY <3>8 DEF User!Detected
    <3>10. units[i] \in Prior(s, dir, z)
      BY <3>9
    <3>11. PICK j \in 1 .. z : units[i] = In[c][j]
      BY <3>8, <3>10 DEF Prior, Plain
    <3> QED BY <3>4, <3>8, <3>9, <3>11
  <2>2. ASSUME ring = <<>>, NEW c \in Clients \ (GivenUp \cup Overlooked), NEW m \in ReadWhole(c),
               User!Detected(Units(c, "recv", m))
        PROVE  c \in blocked
    <3>1. PICK entry \in logged : /\ entry.dir = "recv" /\ entry.conn = c
                                  /\ entry.units = Units(c, "recv", m)
      BY <2>2, ReadIsLogged
    <3>2. IsBad(entry, c)
      BY <3>1, <2>2 DEF IsBad
    <3> QED BY <3>2 DEF Capturing, Blamed
  <2> QED BY <2>1, <2>2 DEF BadIsBlocked
<1> QED BY <1>1, CaptureInvariant, CaptureRefinesHook, HookInvariant, PTL

=============================================================================
