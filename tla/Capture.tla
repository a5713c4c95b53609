------------------------------ MODULE Capture ------------------------------
(****************************************************************************)
(* The plaintext capture from end to end: the probes of SslHook on the      *)
(* nginx workers and the loop of Sniffer in the daemon, joined by the ring  *)
(* buffer.                                                                  *)
(****************************************************************************)
EXTENDS SslHook

VARIABLES connections, logged, blocked, poisonLogs, unseen

User == INSTANCE Sniffer

daemonVars == <<connections, logged, blocked, poisonLogs, unseen>>
vars == <<hookVars, daemonVars>>

CaptureInit == Init /\ User!InitSniffer(Ptrs)

Probes == HookNext /\ UNCHANGED daemonVars
Daemon == User!ReadRecord /\ UNCHANGED <<sess, busy, maps, evictions>>

Next == Probes \/ Daemon

Spec == CaptureInit /\ [][Next]_vars

-----------------------------------------------------------------------------
(* What is captured is HTTP. A session may end at any unit of what its      *)
(* peers meant to say.                                                      *)

\* The message of unit j follows this many units.
Before(P, j) == j - P[j].i

\* A plaintext is made of whole messages, one after the other.
WellFormed(P) ==
  /\ P \in Seq(SetOf(P))
  /\ \A j \in 1 .. Len(P) :
       P[j].need \in Nat /\ P[j].i \in 1 .. P[j].need /\ Before(P, j) \in 0 .. Len(P) - P[j].need
  /\ \A j, k \in 1 .. Len(P) :
       /\ P[k].m = P[j].m <=> k \in Before(P, j) + 1 .. Before(P, j) + P[j].need
       /\ P[k].m = P[j].m => Before(P, k) = Before(P, j) /\ P[k].need = P[j].need

\* Message 0 is the preface of an HTTP/2 client.
ASSUME PlaintextAssumption ==
  \A s \in Sessions :
    /\ WellFormed(In[s]) /\ WellFormed(Out[s])
    /\ \A j \in 1 .. Len(In[s]) :
         In[s][j].m = 0 => Before(In[s], j) = 0 /\ In[s][j].need = User!Preface
    /\ \A j \in 1 .. Len(Out[s]) : Out[s][j].m # 0

-----------------------------------------------------------------------------
(* Properties.                                                              *)

\* The units of message m in direction dir of session s.
MessagesOf(s, dir) == {u.m : u \in SetOf(Plain(dir)[s])} \ {0}
Places(s, dir, m) == {j \in 1 .. Len(Plain(dir)[s]) : Plain(dir)[s][j].m = m}
Units(s, dir, m) ==
  LET places == Places(s, dir, m) IN
  SubSeq(Plain(dir)[s], CHOOSE j \in places : \A k \in places : j <= k,
                        CHOOSE j \in places : \A k \in places : k <= j)

\* What nginx has read or written so far.
Exchanged(s, dir) == {Plain(dir)[s][j] : j \in 1 .. sess[s][dir]}

\* Every message that is analysed, blocked on and logged is one whole message
\* of one session, in order and with nothing of another session that used the
\* same SSL address before, and it is logged with its own client. Where the rest of a
\* read was cut off and nothing looked (in HTTP/1.1, and before the protocol is
\* known), what is taken for a message may be parts of several, but of the same
\* session still.
WholeMessages ==
  \A entry \in logged :
    \E s \in Sessions :
      /\ \/ \E m \in MessagesOf(s, entry.dir) : entry.units = Units(s, entry.dir, m)
         \/ <<s, entry.dir>> \in unseen /\ SetOf(entry.units) \subseteq Exchanged(s, entry.dir)
      /\ s \in Clients => entry.conn = s

\* Requests of c that nginx has read to their end.
ReadWhole(c) ==
  {m \in MessagesOf(c, "recv") : Places(c, "recv", m) \subseteq 1 .. sess[c].recv}
GivenUp == SetOf(poisonLogs)

\* The clients whose requests were cut somewhere without anything looking: they go
\* on unreported, and may lose requests without a line in the log.
Overlooked == {c \in Clients : <<c, "recv">> \in unseen}

\* When the daemon has caught up, every request that nginx has read to its end has
\* been analysed and logged, unless logPoison has said that a connection was given
\* up (its line names none) or a read of this client was cut unseen: only that,
\* a read of more than MAX_BUF_SIZE - 1 bytes in HTTP/1.1 or with the preface,
\* loses requests in silence.
NothingMissed ==
  ring = <<>> =>
    \A c \in Clients \ (GivenUp \cup Overlooked) : \A m \in ReadWhole(c) :
      \E entry \in logged : entry.dir = "recv" /\ entry.units = Units(c, "recv", m)

\* A finished session leaves nothing behind: once its close event has been
\* read, the connection under its SSL address is gone or belongs to the session
\* that has the address now.
ConnectionsReleased ==
  ring = <<>> =>
    \A p \in Ptrs : connections[p] # None =>
      \E s \in Sessions : sess[s].st = "open" /\ sess[s].ptr = p

\* An HTTP/2 direction that was handed a read that may be cut short is
\* desynced: it is given up and reported
\* (internal/sniffer/sniffer.go:99 "reports an h2 poison once per connection, so
\* a desynced connection").
DesyncIsPoisoned ==
  \A p \in Ptrs :
    connections[p] # None /\ connections[p].proto = "h2"
      => connections[p].fedCut \subseteq connections[p].poisoned

\* However many directions and reads a connection is poisoned on, the log says
\* so once for each connection, and for every poisoned one.
PoisonReportedOnce ==
  /\ \A i, j \in 1 .. Len(poisonLogs) : poisonLogs[i] = poisonLogs[j] => i = j
  /\ \A p \in Ptrs : connections[p] # None =>
       (connections[p].poisoned # {} <=> connections[p].h2logged)

\* A client is blocked for a bad request that nginx has read from it, and for
\* nothing else, even when reads are cut: when the daemon has caught up, every client
\* whose bad request was read to its end is blocked, unless its connection was given
\* up or a read of it was cut unseen, which lets it escape
\* (internal/sniffer/sniffer.go, from AnalyseReq to AddBlocked).
BadIsBlocked ==
  /\ \A c \in blocked \ {None} : \E i \in 1 .. sess[c].recv : In[c][i].bad
  /\ ring = <<>> =>
       \A c \in Clients \ (GivenUp \cup Overlooked) : \A m \in ReadWhole(c) :
         User!Detected(Units(c, "recv", m)) => c \in blocked

=============================================================================
