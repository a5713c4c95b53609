------------------------------ MODULE SslHook ------------------------------
(****************************************************************************)
(* The kernel side of the plaintext capture (bpf/ssl_hook.bpf.c): probes on *)
(* accept, SSL_set_fd, SSL_read, SSL_write and SSL_free of the nginx        *)
(* workers, the maps that carry the peer of an accepted socket to its SSL   *)
(* pointer, and the ring buffer to the daemon.                              *)
(*                                                                          *)
(* nginx and the kernel are the environment: single-threaded workers that   *)
(* accept clients, connect to TLS upstreams and reuse descriptors and SSL   *)
(* addresses. Plaintext is a sequence of opaque units per direction.        *)
(****************************************************************************)
EXTENDS Naturals, Sequences, FiniteSets

CONSTANTS
  Clients,      \* inbound connections; each stands for the conn_info of its socket
  Upstreams,    \* outbound TLS connections of nginx
  Workers,      \* nginx worker processes (one thread each)
  Fds,          \* descriptors of a process
  Ptrs,         \* addresses the allocator returns for an SSL object
  None,         \* no entry in a map; zeroed connection fields in an event
  In, Out,      \* plaintext received and sent on each session
  MaxCall,      \* bound: units that one SSL_read or SSL_write moves
  MaxBuf,       \* units that fit in an event (MAX_BUF_SIZE - 1)
  MaxRing,      \* events that fit in the ring buffer
  MaxEvictions  \* bound: LRU evictions

Sessions == Clients \cup Upstreams
Plain(dir) == IF dir = "recv" THEN In ELSE Out
Smaller(m, n) == IF m <= n THEN m ELSE n

ASSUME HookAssumption ==
  /\ Clients \cap Upstreams = {}
  /\ None \notin Sessions \cup Ptrs
  /\ {MaxCall, MaxBuf, MaxRing} \subseteq Nat \ {0} /\ MaxEvictions \in Nat

VARIABLES
  sess,       \* the sessions: state, worker, fd, SSL address, units moved
  busy,       \* the probed call each worker is in
  tidConn,    \* tid_to_conn
  fdConn,     \* fd_to_conn, keyed by (pid, fd)
  sslConn,    \* ssl_to_conn, keyed by (SSL address, pid)
  bufs,       \* bufs: the SSL address a worker's call was entered with
  ring,       \* ringbuf
  evictions

maps == <<tidConn, fdConn, sslConn, bufs>>
hookVars == <<sess, busy, maps, ring, evictions>>

Free == [st |-> "new", w |-> None, fd |-> None, ptr |-> None, recv |-> 0, send |-> 0]
NotBusy == [call |-> "none", s |-> None]

Init ==
  /\ sess = [s \in Sessions |-> Free]
  /\ busy = [w \in Workers |-> NotBusy]
  /\ tidConn = [w \in Workers |-> None]
  /\ fdConn = [w \in Workers |-> [fd \in Fds |-> None]]
  /\ sslConn = [w \in Workers |-> [p \in Ptrs |-> None]]
  /\ bufs = [w \in Workers |-> None]
  /\ ring = <<>>
  /\ evictions = 0

Live(s) == sess[s].st \in {"accepted", "open"}
FreeFds(w) == {fd \in Fds : ~\E s \in Sessions : Live(s) /\ sess[s].w = w /\ sess[s].fd = fd}
FreePtrs(w) == {p \in Ptrs : ~\E s \in Sessions : Live(s) /\ sess[s].w = w /\ sess[s].ptr = p}
Accepted(w, fd) == [st |-> "accepted", w |-> w, fd |-> fd, ptr |-> None, recv |-> 0, send |-> 0]
Opened(s, p) == [st |-> "open", w |-> sess[s].w, fd |-> sess[s].fd, ptr |-> p,
                 recv |-> sess[s].recv, send |-> sess[s].send]
Closed(s) == [st |-> "closed", w |-> None, fd |-> None, ptr |-> None,
              recv |-> sess[s].recv, send |-> sess[s].send]

\* Variant: one event too many.
HasRoomForOneMore == Len(ring) <= MaxRing
HasRoom == Len(ring) < MaxRing
Submit(event) == ring' = Append(ring, event)

-----------------------------------------------------------------------------
(* accept: the socket is known in inet_csk_accept, the descriptor only when *)
(* the system call returns.                                                 *)

inet_csk_accept_exit(w, c) ==
  /\ busy[w] = NotBusy
  /\ sess[c].st = "new"
  /\ tidConn' = [tidConn EXCEPT ![w] = c]
  /\ busy' = [busy EXCEPT ![w] = [call |-> "accept", s |-> c]]
  /\ sess' = [sess EXCEPT ![c].st = "accepting"]
  /\ UNCHANGED <<fdConn, sslConn, bufs, ring, evictions>>

\* Variant: the entry of an earlier socket on this descriptor is kept.
FdInfoKept(w, fd) == IF fdConn[w][fd] # None THEN fdConn[w][fd] ELSE tidConn[w]
FdInfo(w, fd) == IF tidConn[w] # None THEN tidConn[w] ELSE fdConn[w][fd]

\* accept_exit and accept4_exit.
accept_exit(w, fd) ==
  LET c == busy[w].s IN
  /\ busy[w].call = "accept"
  /\ fd \in FreeFds(w)
  /\ tidConn' = [tidConn EXCEPT ![w] = None]
  /\ fdConn' = [fdConn EXCEPT ![w][fd] = FdInfo(w, fd)]
  /\ sess' = [sess EXCEPT ![c] = Accepted(w, fd)]
  /\ busy' = [busy EXCEPT ![w] = NotBusy]
  /\ UNCHANGED <<sslConn, bufs, ring, evictions>>

\* Variant: a failed accept returns before it consumes the entry.
accept_exit_error_early(w) ==
  /\ busy[w].call = "accept"
  /\ sess' = [sess EXCEPT ![busy[w].s] = Closed(busy[w].s)]
  /\ busy' = [busy EXCEPT ![w] = NotBusy]
  /\ UNCHANGED <<maps, ring, evictions>>

\* newfd < 0: the entry is consumed all the same.
accept_exit_error(w) ==
  /\ busy[w].call = "accept"
  /\ tidConn' = [tidConn EXCEPT ![w] = None]
  /\ sess' = [sess EXCEPT ![busy[w].s] = Closed(busy[w].s)]
  /\ busy' = [busy EXCEPT ![w] = NotBusy]
  /\ UNCHANGED <<fdConn, sslConn, bufs, ring, evictions>>

\* nginx connects to an upstream: no probe sees it.
Connect(w, u, fd) ==
  /\ busy[w] = NotBusy
  /\ sess[u].st = "new"
  /\ fd \in FreeFds(w)
  /\ sess' = [sess EXCEPT ![u] = Accepted(w, fd)]
  /\ UNCHANGED <<busy, maps, ring, evictions>>

\* A socket that never carries TLS: a plain listener, or a peer that left.
CloseSocket(w, s) ==
  /\ busy[w] = NotBusy
  /\ sess[s].st = "accepted" /\ sess[s].w = w
  /\ sess' = [sess EXCEPT ![s] = Closed(s)]
  /\ UNCHANGED <<busy, maps, ring, evictions>>

ssl_set_fd(w, s, p) ==
  LET fd == sess[s].fd IN
  /\ busy[w] = NotBusy
  /\ sess[s].st = "accepted" /\ sess[s].w = w
  /\ p \in FreePtrs(w)
  /\ IF fdConn[w][fd] = None THEN UNCHANGED <<fdConn, sslConn>>
     ELSE /\ sslConn' = [sslConn EXCEPT ![w][p] = fdConn[w][fd]]
          /\ fdConn' = [fdConn EXCEPT ![w][fd] = None]
  /\ sess' = [sess EXCEPT ![s] = Opened(s, p)]
  /\ UNCHANGED <<busy, tidConn, bufs, ring, evictions>>

-----------------------------------------------------------------------------
(* SSL_read ("recv") and SSL_write ("send"): the entry probe keeps the SSL  *)
(* address under the tid, the exit probe builds the event.                  *)

ssl_entry(w, s, dir) ==
  /\ busy[w] = NotBusy
  /\ sess[s].st = "open" /\ sess[s].w = w
  /\ sess[s][dir] < Len(Plain(dir)[s])
  /\ bufs' = [bufs EXCEPT ![w] = sess[s].ptr]
  /\ busy' = [busy EXCEPT ![w] = [call |-> dir, s |-> s]]
  /\ UNCHANGED <<sess, tidConn, fdConn, sslConn, ring, evictions>>

\* ret <= 0: want-read, want-write or an error.
ssl_exit_nothing(w) ==
  /\ busy[w].call \in {"recv", "send"}
  /\ bufs' = [bufs EXCEPT ![w] = None]
  /\ busy' = [busy EXCEPT ![w] = NotBusy]
  /\ UNCHANGED <<sess, tidConn, fdConn, sslConn, ring, evictions>>

\* Variant: ssl_to_conn keyed by the address alone.
ConnOfAddress(w, p) ==
  IF \E v \in Workers : sslConn[v][p] # None
  THEN sslConn[CHOOSE v \in Workers : sslConn[v][p] # None][p] ELSE None
ConnOf(w, p) == sslConn[w][p]

\* ret = n > 0: at most MaxBuf units are captured, the rest of a longer read is cut
\* off, and nothing is captured when no event can be reserved. of and read are
\* history: an event has neither.
ssl_exit(w, n) ==
  LET s == busy[w].s
      dir == busy[w].call
      at == sess[s][dir]
      len == Smaller(n, MaxBuf) IN
  /\ dir \in {"recv", "send"}
  /\ at + n <= Len(Plain(dir)[s])
  /\ sess' = [sess EXCEPT ![s][dir] = at + n]
  /\ IF HasRoom
     THEN Submit([dir |-> dir, pid |-> w, ssl |-> bufs[w], conn |-> ConnOf(w, bufs[w]),
                  len |-> len, data |-> SubSeq(Plain(dir)[s], at + 1, at + len), of |-> s,
                  read |-> n])
     ELSE UNCHANGED ring
  /\ bufs' = [bufs EXCEPT ![w] = None]
  /\ busy' = [busy EXCEPT ![w] = NotBusy]
  /\ UNCHANGED <<tidConn, fdConn, sslConn, evictions>>

\* Without room for the close event the probe returns before it forgets the
\* SSL address.
ssl_free_entry(w, s) ==
  LET p == sess[s].ptr IN
  /\ busy[w] = NotBusy
  /\ sess[s].st = "open" /\ sess[s].w = w
  /\ IF HasRoom
     THEN /\ Submit([dir |-> "close", pid |-> w, ssl |-> p, conn |-> None,
                     len |-> 0, data |-> <<>>, of |-> s, read |-> 0])
          /\ sslConn' = [sslConn EXCEPT ![w][p] = None]
     ELSE UNCHANGED <<ring, sslConn>>
  /\ sess' = [sess EXCEPT ![s] = Closed(s)]
  /\ UNCHANGED <<busy, tidConn, fdConn, bufs, evictions>>

-----------------------------------------------------------------------------

\* The three connection maps are LRU: the kernel may drop an entry.
Evict ==
  /\ evictions < MaxEvictions
  /\ evictions' = evictions + 1
  /\ \E w \in Workers :
       \/ /\ tidConn[w] # None
          /\ tidConn' = [tidConn EXCEPT ![w] = None]
          /\ UNCHANGED <<fdConn, sslConn>>
       \/ /\ \E fd \in Fds : fdConn[w][fd] # None /\ fdConn' = [fdConn EXCEPT ![w][fd] = None]
          /\ UNCHANGED <<tidConn, sslConn>>
       \/ /\ \E p \in Ptrs : sslConn[w][p] # None /\ sslConn' = [sslConn EXCEPT ![w][p] = None]
          /\ UNCHANGED <<tidConn, fdConn>>
  /\ UNCHANGED <<sess, busy, bufs, ring>>

Worker(w) ==
  \/ \E c \in Clients : inet_csk_accept_exit(w, c)
  \/ \E fd \in Fds : accept_exit(w, fd)
  \/ accept_exit_error(w)
  \/ \E u \in Upstreams, fd \in Fds : Connect(w, u, fd)
  \/ \E s \in Sessions : CloseSocket(w, s) \/ ssl_free_entry(w, s)
  \/ \E s \in Sessions, p \in Ptrs : ssl_set_fd(w, s, p)
  \/ \E s \in Sessions, dir \in {"recv", "send"} : ssl_entry(w, s, dir)
  \/ ssl_exit_nothing(w)
  \/ \E n \in 1 .. MaxCall : ssl_exit(w, n)

HookNext == (\E w \in Workers : Worker(w)) \/ Evict

\* Some reader takes the oldest event.
Consume ==
  /\ ring # <<>>
  /\ ring' = Tail(ring)
  /\ UNCHANGED <<sess, busy, maps, evictions>>

HookSpec == Init /\ [][HookNext \/ Consume]_hookVars

-----------------------------------------------------------------------------
(* Properties.                                                              *)

SetOf(seq) == {seq[i] : i \in 1 .. Len(seq)}

TypeOK ==
  /\ sess \in [Sessions -> [st : {"new", "accepting", "accepted", "open", "closed"},
                            w : Workers \cup {None}, fd : Fds \cup {None},
                            ptr : Ptrs \cup {None}, recv : Nat, send : Nat]]
  /\ busy \in [Workers -> [call : {"none", "accept", "recv", "send"}, s : Sessions \cup {None}]]
  /\ tidConn \in [Workers -> Clients \cup {None}]
  /\ fdConn \in [Workers -> [Fds -> Clients \cup {None}]]
  /\ sslConn \in [Workers -> [Ptrs -> Clients \cup {None}]]
  /\ bufs \in [Workers -> Ptrs \cup {None}]
  /\ Len(ring) <= MaxRing
  /\ evictions \in 0 .. MaxEvictions

\* Through accept, the descriptor and the SSL address, with every one of the
\* three reused, and with events and close events lost to a full ring buffer,
\* the plaintext of an inbound session carries the address of its own client,
\* unless the kernel has evicted an entry of the maps.
InboundAttribution ==
  evictions = 0 =>
    \A e \in SetOf(ring) : e.of \in Clients /\ e.dir # "close" => e.conn = e.of

\* Even when LRU evictions and a full ring buffer break the chain of maps, the
\* plaintext of one session is never put on a client that is still connected:
\* what is left in the maps under a reused key is the peer of a dead socket.
NeverBlamesALiveClient ==
  \A e \in SetOf(ring) : e.conn \notin {e.of, None} => sess[e.conn].st = "closed"

\* No failure path leaves a per-thread entry behind for the next call.
ThreadStateConsumed ==
  \A w \in Workers :
    /\ busy[w].call \notin {"recv", "send"} => bufs[w] = None
    /\ busy[w].call # "accept" => tidConn[w] = None

=============================================================================
