------------------------------ MODULE Pipeline ------------------------------
(****************************************************************************)
(* What both sniffers do with a message, at the same time: the ends of the  *)
(* loop in internal/sniffer/sniffer.go, and emitRequest and emitResponse of *)
(* internal/http3_sniffer/http3_sniffer.go. Requests are analysed,          *)
(* detections are logged, Decide (internal/analysis/policy.go) counts them  *)
(* in a map that both goroutines use without a lock, AddBlocked blocks the  *)
(* client, and the message goes masked to the log of module Logger.         *)
(*                                                                          *)
(* The block list is the set of the addresses that AddBlocked has put       *)
(* there; what becomes of them is in BlockList, and 500 hours do not pass.  *)
(****************************************************************************)
EXTENDS Logger, Inspection

CONSTANTS
  Inboxes,       \* the messages the parsers may hand on: functions from Sniffers to sequences
  Http3,         \* the sniffer that masks before it analyses, and sees no bodies
  Unblockable,   \* addresses that AddBlocked refuses
  Score,         \* of a detection, 90
  Limit          \* from which Decide blocks, 70

Messages == UNION {UNION {SetOf(box[s]) : s \in Sniffers} : box \in Inboxes}
Addresses == {m.client : m \in Messages}

\* One detection is enough for a block.
ASSUME PipelineAssumption ==
  /\ {"events", "detections"} \subseteq Queues
  /\ Inboxes \subseteq [Sniffers -> Seq(Messages)]
  /\ \A m \in Messages : IsMessage(m)
  /\ Score \in Nat /\ Limit \in Nat /\ Score >= Limit
  /\ None \notin Nat

VARIABLES
  inbox,         \* messages that are still to come; the first is being handled
  at,            \* where each sniffer is: "next", "detected", "storing", "block", "log"
  clients,       \* address -> score
  blocked,       \* the block list
  refused,       \* history: addresses for which AddBlocked returned an error
  handled,       \* history: requests that were handled to their end, with the sniffer
  documents      \* history: what LogRequest, LogResponse and LogDetection were given

pipelineVars == <<inbox, at, clients, blocked, refused, handled, documents>>
allVars == <<vars, pipelineVars>>

PipelineInit ==
  /\ Init
  /\ inbox \in Inboxes
  /\ at = [s \in Sniffers |-> "next"]
  /\ clients = [a \in Addresses |-> None]
  /\ blocked = {} /\ refused = {} /\ handled = {} /\ documents = {}

\* An HTTP/3 request is masked first; it has no body.
Detections(s, m) == AnalyseReq(IF s = Http3 THEN Masked(m) ELSE m)

-----------------------------------------------------------------------------

Goto(s, label) == at' = [at EXCEPT ![s] = label]
At(s, label) == pc[s] = "running" /\ ~stopped /\ at[s] = label /\ inbox[s] # <<>>

\* A response, or a request without a detection, for which Decide returns at once.
NothingDetected(s) ==
  LET m == Head(inbox[s]) IN
  /\ At(s, "next")
  /\ m.dir = "response" \/ Detections(s, m) = {}
  /\ Goto(s, "log")
  /\ UNCHANGED <<vars, inbox, clients, blocked, refused, handled, documents>>

\* A DetectionEvent has the path of the request, but no headers and no body.
DetectionDocument(m) ==
  [path |-> m.path, headers |-> {}, body |-> [k |-> "text", pieces |-> {}]]

LogDetection(s) ==
  LET m == Head(inbox[s]) IN
  /\ At(s, "next")
  /\ m.dir = "request" /\ Detections(s, m) # {}
  /\ Log(s, "detections")
  /\ documents' = documents \cup {DetectionDocument(m)}
  /\ Goto(s, "detected")
  /\ UNCHANGED <<inbox, clients, blocked, refused, handled>>

-----------------------------------------------------------------------------
(* Decide. A goroutine that looks a client up or stores one while the other *)
(* is storing may be stopped by the runtime, and the daemon with it.        *)
(* Additions to the score of one client may be lost; what a goroutine has   *)
(* read and added to is its own, and one detection reaches the limit.       *)

Decided(s, total) == Goto(s, IF total >= Limit THEN "block" ELSE "log")
Storing(s) == \E other \in Sniffers \ {s} : at[other] = "storing"

DecideKnown(s) ==
  LET a == Head(inbox[s]).client IN
  /\ At(s, "detected")
  /\ clients[a] # None
  /\ clients' = [clients EXCEPT ![a] = @ + Score]
  /\ Decided(s, clients[a] + Score)
  /\ UNCHANGED <<vars, inbox, blocked, refused, handled, documents>>

DecideNew(s) ==
  /\ At(s, "detected")
  /\ clients[Head(inbox[s]).client] = None
  /\ Goto(s, "storing")
  /\ UNCHANGED <<vars, inbox, clients, blocked, refused, handled, documents>>

\* Variant: the detection that creates the state is not counted.
DecideStored_zero(s) ==
  /\ At(s, "storing")
  /\ clients' = [clients EXCEPT ![Head(inbox[s]).client] = 0]
  /\ Decided(s, 0)
  /\ UNCHANGED <<vars, inbox, blocked, refused, handled, documents>>
\* The new state replaces what the other goroutine may have stored meanwhile.
DecideStored(s) ==
  /\ At(s, "storing")
  /\ clients' = [clients EXCEPT ![Head(inbox[s]).client] = Score]
  /\ Decided(s, Score)
  /\ UNCHANGED <<vars, inbox, blocked, refused, handled, documents>>

FatalRace(s) ==
  /\ At(s, "detected") \/ At(s, "storing")
  /\ Storing(s)
  /\ Stop
  /\ UNCHANGED pipelineVars

-----------------------------------------------------------------------------

\* AddBlocked, for Block; an error is only logged.
AddBlockedOk(s) ==
  LET a == Head(inbox[s]).client IN
  /\ At(s, "block")
  /\ a \notin Unblockable
  /\ blocked' = blocked \cup {a}
  /\ Goto(s, "log")
  /\ UNCHANGED <<vars, inbox, clients, refused, handled, documents>>
AddBlockedError(s) ==
  /\ At(s, "block")
  /\ refused' = refused \cup {Head(inbox[s]).client}
  /\ Goto(s, "log")
  /\ UNCHANGED <<vars, inbox, clients, blocked, handled, documents>>

\* Variant: the body is masked before it is decoded.
Document_swapped(s, m) == IF s = Http3 THEN Masked(m) ELSE Decoded(Masked(m))
Document(s, m) == IF s = Http3 THEN Masked(m) ELSE Masked(Decoded(m))

\* LogRequest or LogResponse, and on to the next message.
LogMessage(s) ==
  LET m == Head(inbox[s]) IN
  /\ At(s, "log")
  /\ Log(s, "events")
  /\ documents' = documents \cup {Document(s, m)}
  /\ inbox' = [inbox EXCEPT ![s] = Tail(@)]
  /\ Goto(s, "next")
  /\ handled' = IF m.dir = "request" THEN handled \cup {<<s, m>>} ELSE handled
  /\ UNCHANGED <<clients, blocked, refused>>

Handle(s) ==
  \/ NothingDetected(s) \/ LogDetection(s)
  \/ DecideKnown(s) \/ DecideNew(s) \/ DecideStored(s)
  \/ AddBlockedOk(s) \/ AddBlockedError(s) \/ LogMessage(s)

Logging(s) ==
  /\ \/ InitFails(s) \/ InitConnects(s) \/ startWorkers(s)
     \/ \E q \in Queues : Receive(s, q) \/ indexOk(s, q) \/ indexFailed(s, q)
  /\ UNCHANGED pipelineVars

PipelineNext ==
  \/ \E s \in Sniffers : Handle(s) \/ FatalRace(s) \/ Logging(s)
  \/ Stop /\ UNCHANGED pipelineVars

\* Goroutines run on; nothing is asked of Elasticsearch, nor of the workers.
PipelineSpec ==
  /\ PipelineInit /\ [][PipelineNext]_allVars
  /\ \A s \in Sniffers :
       WF_allVars(Handle(s) \/ ((InitFails(s) \/ InitConnects(s) \/ startWorkers(s)) /\ UNCHANGED pipelineVars))

-----------------------------------------------------------------------------
(* Properties.                                                              *)

\* A detection has a consequence, also when both sniffers count in the map of
\* clients at once and lose an addition or a whole state: when the request has been
\* handled, its client is blocked, or AddBlocked has said that it cannot be
\* (analysis.Decide, and the calls of AddBlocked).
DetectionsAct ==
  \A h \in handled : Detections(h[1], h[2]) # {} => h[2].client \in blocked \cup refused

\* What the log is given, of a request, a response or a detection, shows a secret in the
\* path at most, which is logged as it came, with its query (internal/logger/logger.go:150
\* and 187). No header and no JSON field with a sensitive name, at any depth and in any
\* case of letters, is in it, nor in a text body what a pattern matches; a compressed
\* body is decoded before it is masked (internal/masking/masking.go:150-219). A body that
\* the daemon cannot decode is logged as it is, and one that is cut is masked as text.
SecretsMasked == \A d \in documents : Shown(d) \subseteq {"path"}

\* Each sniffer gets through its messages unless the daemon stops: the log never
\* holds it up, even when no worker ever runs again
\* (internal/logger/logger.go:122 "without blocking the sniffer").
NeverHeldUp == <>(stopped \/ \A s \in Sniffers : inbox[s] = <<>>)

=============================================================================
