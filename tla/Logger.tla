------------------------------- MODULE Logger -------------------------------
(****************************************************************************)
(* Event logging (internal/logger): the sniffers put HTTP events and        *)
(* detections into two bounded queues, and workers index them in            *)
(* Elasticsearch. Every sniffer calls Init, and every Init that reaches     *)
(* Elasticsearch starts one worker for each queue, so a daemon that runs    *)
(* both sniffers has two workers for each. The daemon may stop at any time, *)
(* on a signal or a fatal error, with what is in the queues.                *)
(****************************************************************************)
EXTENDS Naturals, Sequences, FiniteSets

CONSTANTS
  Sniffers,      \* the goroutines that call Init and log
  Queues,        \* eventQueue and detectionQueue
  Capacity,      \* of each channel, 4096
  MaxEvents,     \* bound: events that one sniffer logs to one queue
  None

\* The n-th event that a sniffer logs to a queue.
Events == [by : Sniffers, q : Queues, n : 1 .. MaxEvents]

ASSUME LoggerAssumption ==
  /\ Capacity \in Nat /\ MaxEvents \in Nat
  /\ IsFiniteSet(Sniffers) /\ IsFiniteSet(Queues)
  /\ None \notin Events

VARIABLES
  stopped,       \* has the daemon ended?
  pc,            \* where each sniffer is: "init", "connected", "running"
  Client,        \* is the Elasticsearch client set?
  workers,       \* worker goroutines of each queue, by the Init that started them
  queue,
  busy,          \* the event each worker is indexing
  count,         \* history: events that each sniffer logged to each queue
  indexed,       \* history: how often each event was written
  lost,          \* history: events that were dropped or not written
  silent         \* history: those of them of which the log says nothing

vars == <<stopped, pc, Client, workers, queue, busy, count, indexed, lost, silent>>

Init ==
  /\ stopped = FALSE
  /\ pc = [s \in Sniffers |-> "init"]
  /\ Client = FALSE
  /\ workers = [q \in Queues |-> {}]
  /\ queue = [q \in Queues |-> <<>>]
  /\ busy = [w \in Sniffers \X Queues |-> None]
  /\ count = [s \in Sniffers |-> [q \in Queues |-> 0]]
  /\ indexed = [e \in Events |-> 0]
  /\ lost = {} /\ silent = {}

-----------------------------------------------------------------------------
(* Init of internal/logger/client.go.                                       *)

\* Elasticsearch cannot be reached: the client stays as it is.
InitFails(s) ==
  /\ ~stopped /\ pc[s] = "init"
  /\ pc' = [pc EXCEPT ![s] = "running"]
  /\ UNCHANGED <<stopped, Client, workers, queue, busy, count, indexed, lost, silent>>

InitConnects(s) ==
  /\ ~stopped /\ pc[s] = "init"
  /\ pc' = [pc EXCEPT ![s] = "connected"]
  /\ Client' = TRUE
  /\ UNCHANGED <<stopped, workers, queue, busy, count, indexed, lost, silent>>

startWorkers(s) ==
  /\ ~stopped /\ pc[s] = "connected"
  /\ pc' = [pc EXCEPT ![s] = "running"]
  /\ workers' = [q \in Queues |-> workers[q] \cup {s}]
  /\ UNCHANGED <<stopped, Client, queue, busy, count, indexed, lost, silent>>

-----------------------------------------------------------------------------
(* LogRequest, LogResponse and LogDetection.                                *)

\* Without a client nothing is logged of the event, not even that it is dropped.
DropSilently(e) == lost' = lost \cup {e} /\ silent' = silent \cup {e} /\ UNCHANGED queue

\* Variant: with the queue full the sniffer waits.
enqueue_waits(e) ==
  \/ ~Client /\ DropSilently(e)
  \/ /\ Client /\ Len(queue[e.q]) < Capacity
     /\ queue' = [queue EXCEPT ![e.q] = Append(@, e)]
     /\ UNCHANGED <<lost, silent>>
\* Variant: the newest event replaces the oldest in a full queue.
enqueue_replaces(e) ==
  \/ ~Client /\ DropSilently(e)
  \/ /\ Client
     /\ queue' = [queue EXCEPT ![e.q] =
                    IF Len(@) < Capacity THEN Append(@, e) ELSE Append(Tail(@), e)]
     /\ UNCHANGED <<lost, silent>>
\* enqueue and enqueueDetection. A full queue costs the event, and a warning.
enqueue(e) ==
  \/ ~Client /\ DropSilently(e)
  \/ /\ Client /\ Len(queue[e.q]) < Capacity
     /\ queue' = [queue EXCEPT ![e.q] = Append(@, e)]
     /\ UNCHANGED <<lost, silent>>
  \/ /\ Client /\ Len(queue[e.q]) >= Capacity
     /\ lost' = lost \cup {e}
     /\ UNCHANGED <<queue, silent>>

Log(s, q) ==
  /\ ~stopped /\ pc[s] = "running"
  /\ count[s][q] < MaxEvents
  /\ count' = [count EXCEPT ![s][q] = @ + 1]
  /\ enqueue([by |-> s, q |-> q, n |-> count[s][q] + 1])
  /\ UNCHANGED <<stopped, pc, Client, workers, busy, indexed>>

-----------------------------------------------------------------------------
(* The workers.                                                             *)

Receive(s, q) ==
  /\ ~stopped /\ s \in workers[q] /\ busy[<<s, q>>] = None
  /\ queue[q] # <<>>
  /\ busy' = [busy EXCEPT ![<<s, q>>] = Head(queue[q])]
  /\ queue' = [queue EXCEPT ![q] = Tail(@)]
  /\ UNCHANGED <<stopped, pc, Client, workers, count, indexed, lost, silent>>

\* Variant: an event that could not be indexed is put back.
indexFailed_requeues(s, q) ==
  /\ ~stopped /\ busy[<<s, q>>] # None
  /\ busy' = [busy EXCEPT ![<<s, q>>] = None]
  /\ queue' = [queue EXCEPT ![q] = Append(@, busy[<<s, q>>])]
  /\ UNCHANGED <<stopped, pc, Client, workers, count, indexed, lost, silent>>
\* Variant: the worker ends at the first error.
indexFailed_ends(s, q) ==
  /\ ~stopped /\ busy[<<s, q>>] # None
  /\ busy' = [busy EXCEPT ![<<s, q>>] = None]
  /\ workers' = [workers EXCEPT ![q] = @ \ {s}]
  /\ lost' = lost \cup {busy[<<s, q>>]}
  /\ UNCHANGED <<stopped, pc, Client, queue, count, indexed, silent>>
\* indexEvent and indexDetection return within five seconds. Whether they report
\* an error makes no difference to the worker; what matters here is whether the
\* document was written. One that was not is reported, unless there is no client.
indexFailed(s, q) ==
  /\ ~stopped /\ busy[<<s, q>>] # None
  /\ busy' = [busy EXCEPT ![<<s, q>>] = None]
  /\ lost' = lost \cup {busy[<<s, q>>]}
  /\ silent' = IF Client THEN silent ELSE silent \cup {busy[<<s, q>>]}
  /\ UNCHANGED <<stopped, pc, Client, workers, queue, count, indexed>>

indexOk(s, q) ==
  /\ ~stopped /\ Client /\ busy[<<s, q>>] # None
  /\ busy' = [busy EXCEPT ![<<s, q>>] = None]
  /\ indexed' = [indexed EXCEPT ![busy[<<s, q>>]] = @ + 1]
  /\ UNCHANGED <<stopped, pc, Client, workers, queue, count, lost, silent>>

Index(s, q) == indexOk(s, q) \/ indexFailed(s, q)

Stop ==
  /\ ~stopped
  /\ stopped' = TRUE
  /\ UNCHANGED <<pc, Client, workers, queue, busy, count, indexed, lost, silent>>

Next ==
  \/ Stop
  \/ \E s \in Sniffers :
       \/ InitFails(s) \/ InitConnects(s) \/ startWorkers(s)
       \/ \E q \in Queues : Log(s, q) \/ Receive(s, q) \/ indexOk(s, q) \/ indexFailed(s, q)

Spec == Init /\ [][Next]_vars

\* Workers run, and the timeout makes every index call return.
WorkersFair ==
  \A s \in Sniffers, q \in Queues : WF_vars(Receive(s, q)) /\ WF_vars(Index(s, q))

-----------------------------------------------------------------------------
(* Properties.                                                              *)

SetOf(seq) == {seq[i] : i \in 1 .. Len(seq)}
Logged == {e \in Events : e.n <= count[e.by][e.q]}

\* In how many places an event is: waiting, being indexed, written, given up.
Places(e) ==
  Cardinality({i \in 1 .. Len(queue[e.q]) : queue[e.q][i] = e})
  + Cardinality({w \in Sniffers \X Queues : busy[w] = e})
  + indexed[e] + Cardinality(lost \cap {e})

TypeOK ==
  /\ stopped \in BOOLEAN
  /\ pc \in [Sniffers -> {"init", "connected", "running"}]
  /\ Client \in BOOLEAN
  /\ workers \in [Queues -> SUBSET Sniffers]
  /\ \A q \in Queues : /\ Len(queue[q]) <= Capacity
                         /\ \A e \in SetOf(queue[q]) : e \in Events /\ e.q = q
  /\ busy \in [Sniffers \X Queues -> Events \cup {None}]
  /\ lost \subseteq Events /\ silent \subseteq lost

\* Every event that was logged is in one place: waiting, being indexed, written, or
\* given up. None is written twice, whatever number of workers there is. One may be
\* given up without a line in the log ("logging disabled, drop silently",
\* internal/logger/logger.go:113, and indexEvent without a client), but never one of
\* a sniffer whose own Init has started workers.
EachEventOnce ==
  /\ \A e \in Events : Places(e) = IF e \in Logged THEN 1 ELSE 0
  /\ \A e \in silent : \A q \in Queues : e.by \notin workers[q]

\* As long as the workers run, what is in a queue is taken out and indexed or given
\* up, unless the daemon stops: nothing waits for ever, although the workers start
\* only after the client is set (startWorker, indexEvent).
QueueDrains ==
  WorkersFair => \A q \in Queues : []<>(queue[q] = <<>> \/ stopped)

=============================================================================
