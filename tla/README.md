# A TLA+ model of NginXray

NginXray protects an nginx host. An XDP program at the network interface drops
packets from blocked addresses and limits the rate of every other source; eBPF
probes on nginx copy the plaintext of its TLS connections to a Go daemon, which
puts HTTP messages together again, looks for attacks in requests, blocks the
clients that sent them and logs everything to Elasticsearch. There are no tests
in the repository, and most of what can go wrong needs several actors: CPUs,
nginx workers, goroutines, a collector, reused descriptors and addresses, full
maps. This project models that part, checks it with TLC on small instances, and
proves the properties that matter most with TLAPS.

File names below are relative to the repository root; `PROJECT.json` maps
each definition to the lines it models.

## 1. Inventory

| Component | State | Operations | Interacts with | Hard behaviour |
|---|---|---|---|---|
| Edge block list (`internal/filter/filter.go`, `bpf/xdp_filter.bpf.c`) | two LPM tries with expiry and hit count | `AddBlocked`, `check_block` per packet, `StartGC`/`cleanupExpired` | sniffers call `AddBlocked`; XDP reads | collector against renewal, nested prefixes, full trie, failing system calls |
| Rate limiter (`bpf/xdp_filter.bpf.c`) | per source: `last_updated_at`, `tokens` in an LRU map | `check_ratelim_ipv4`, `check_ratelim_ipv6` per packet | after the block list, on every CPU | no lock, wrapping subtraction, eviction |
| TLS probes (`bpf/ssl_hook.bpf.c`) | `bufs`, `tid_to_conn`, `fd_to_conn`, `ssl_to_conn`, ring buffer | accept, `SSL_set_fd`, `SSL_read`, `SSL_write`, `SSL_free` | nginx workers; the daemon reads the ring | reused keys, failed calls, full ring, LRU |
| TLS sniffer loop (`internal/sniffer/sniffer.go`) | a connection per SSL address | one ring event at a time | parsers, analysis, `AddBlocked`, log | protocol detection across reads, close events, truncated reads |
| HTTP/2 parser (`internal/parser/http2.go`) | per direction: buffer, streams, open header block, HPACK decoder, poison | `FeedRequest`, `FeedResponse`, frame handlers | sniffer loop | CONTINUATION, limits, resets, desync |
| HTTP/1.x parser (`internal/parser/http1.go`) | a buffer per direction | `ParseRequest`, `ParseResponse` | sniffer loop | framing across reads, trailers, bodiless statuses |
| Analysis and policy (`internal/analysis`) | score per client | `AnalyseReq`, `Decide` | both sniffers | unlocked map when both sniffers run |
| Event log (`internal/logger`) | client, two bounded queues, workers | `Init`, `Log*`, workers | both sniffers, Elasticsearch | full queue, two workers, timeouts |
| HTTP/3 sniffer (`internal/http3_sniffer`, `bpf/http3_headers.bpf.c`) | `st_map`, `pid_conn_map`, three ring buffers; QPACK tables, pending requests and responses, all by the address of a connection object | three ring readers, idle flush | nginx QUIC, analysis, filter, log | order between rings, reused objects, aborted requests, responses told apart by a timer only |
| Masking, body decoding (`internal/masking`, `internal/parser/decompress.go`) | none | pure functions on one message | between analysis and log | order of analysis, decoding and masking; nested JSON; bodies that cannot be decoded or are cut |
| Entry points | none | start-up order | all | none |

What makes each correct, in one sentence: a block that was acknowledged holds
until it expires and no longer; a source gets BURST packets plus its rate and a
slow one is never refused; plaintext carries the address of the client it came
from; every message is handed on once, whole, and unmixed; a request with a
detection leads to a block; memory is bounded and given back; the log never
holds up a sniffer and writes nothing twice.

## 2. Modules

    BlockList          the block list            <- BlockListProofs
    TokenBucket        the limiter's promise     <- TokenBucketProofs
    RateLimit          the limiter, by loads and stores; refines TokenBucket
                                                 <- RateLimitProofs
    SslHook            probes, maps, ring buffer
    Sniffer            the daemon's event loop
    Capture            SslHook and Sniffer joined by the ring buffer
                                                 <- CaptureProofs
    Http2              an HTTP/2 direction, in detail  <- Http2Proofs
    Http1              the HTTP/1.1 parser, in detail  <- Http1Proofs
    Reassembly         one direction of a connection: Http1 or Http2
    H3Probes           HTTP/3 probes, maps, three ring buffers
    H3Sniffer          H3Probes with the daemon's four goroutines
                                                 <- H3SnifferProofs
    Logger             queues and workers (proofs in PipelineProofs)
    Inspection         analysis, decoding and masking of one message
    Pipeline           both sniffers, from a message to Logger, with Inspection
                                                 <- PipelineProofs
    MC*                constants for TLC

**BlockList.** `Hosts` are addresses, and a prefix is the set of the addresses it
covers; the longest match is the smallest set. `AddBlocked` computes the expiry
and enters the kernel in a second step (`PutOk`, `PutError`), a packet reads the
clock (`PacketIn`) before the trie (`PacketDrop`, `PacketPass`), and the
collector is a scan that visits keys one by one and a deletion phase, IPv4 first.
`ReplaceInFull` says whether the kernel replaces the value of an existing key in
a full trie, which differs between kernel versions. Hash-table internals and the
block reason are left out.

**RateLimit, TokenBucket.** `RateLimit` has one action for each load and each
store of the compiled function: the two fields are loaded once, each store is
atomic, the two stores may come in either order. The source has no `volatile` or
lock, so this is the compilation the default build (`-O2`) gives.
`Steer` says which sources the NIC hands to which CPU. Arithmetic is modulo
`Word`. `TokenBucket` handles a packet in one step; `IsTokenBucket` in
`RateLimit` is the refinement, which reads the bucket of a half-finished store as
the one that was loaded. Two things are left out. The program stores `tokens` when it
refills (`xdp_filter.bpf.c:113`, `:117`) and again when it takes one (`:128`);
`StoreTokens` is the last of them: the first only shows to other CPUs, and what it
stores is capped at BURST as well. And the
map does not evict an entry a CPU points into (`Evictable`); the kernel may reuse
one, and the program would then write the bucket of another source.

**SslHook.** One action per probe. `accept_exit` stands for `accept` and
`accept4`, `ssl_entry` and `ssl_exit` for read and write, each with the direction
as a parameter. A probe is one step: evictions come between probes, never between a
lookup and the use of what it found. In particular `accept_exit`, which deletes the
`tid_to_conn` entry and then copies from the deleted value into `fd_to_conn`
(`ssl_hook.bpf.c:328-337`, `:352-360`), copies what it has looked up; that another CPU
is given the element of the LRU map in between is outside the model. nginx is the environment: single-threaded workers that accept,
connect to upstreams, close, and reuse descriptors and SSL addresses freely.
Plaintext is a sequence of units that know where they came from.

**Sniffer, Capture.** `ReadRecord` is one turn of the loop in `Main`: `Close`,
`HTTP2`, `Undecided`, `BecomesHTTP2`, `HTTP1` are its branches, each with all the
calls it makes. Messages are runs of units whose first unit says how many there
are, which is what the framing of either protocol tells the parser; how it
does is in `Http1` and `Http2`. A detection always leads to a block, because
every detector scores 90 and `Decide` blocks at 70. `Capture` composes the loop
with the probes (`INSTANCE Sniffer`). A call may exchange more than the capture
buffer holds (`MaxCall` against `MaxBuf`); the event then has the first `len` of `read`
units. `HTTP2` gives the direction up; the other branches, like the code, never
compare the length with `maxCapturedRead`, and the parser goes on with what there is.
The history variable `unseen` records the session and direction of which a part was
lost like that (`Overlook`); the daemon does not have it, and nothing it does depends
on it. `poisonLogs` is history as well: the line that `logPoison` writes has the reason
and names no client.

**Http2.** One direction. Every frame handler is an operator; the peer is an
environment that keeps the protocol's rules, and with `Faulty` also breaks them. A
header block is the number of its place in the order of encoding, so that
`decoded` shows whether the HPACK decoder is in step. `Return` is the end of
`FeedRequest` or `FeedResponse`, which may come after any frame.

**Http1.** The parser as recursive functions over tokens, re-parsing the buffer
from its start as the code does; the peer sends any sequence of messages and the
capture cuts it anywhere.

**Reassembly.** A connection has one protocol, decided once from its first bytes,
and the parser of the other one is never called; the state space is the sum of
those of `Http1` and `Http2`.

**H3Probes, H3Sniffer.** `H3Probes` has one action for each probe and each way
`ngx_http_v3_parse_headers` returns; nginx is the environment, a thread that
turns from stream to stream, reuses the addresses of connection objects, and
aborts requests at any field. Each worker is a process with addresses of its own, so
that objects of two workers may have one address at the same time. In nginx a table
belongs to the object of a stream (`table`); the daemon keeps one copy for an address
(`dynamicTables`), which goes on for whoever has the address next. How nginx shares a
table between the streams of a connection is not in these sources.
`H3Sniffer` has the turns of `reqEventLoop` and `tableEventLoop` as one step each
(only they touch the pending requests, and only the latter adds to a table),
`respEventLoop` as two (`ReadResp`, `appendRespField`, between which the lock is
released) and `flushIdleResponses` as taking under the lock (`FlushTake`) and
emitting without (`FlushEmit`). `Elapse` lets 50 ms pass for a pending response.
The k-th field of stream s is `<<s, k>>`; a response field carries in `means`
the name nginx refers to, and gets in `name` the one the daemon resolves. History
variables say where the code gives no promise: `broken` (streams aborted after a
field, or with a lost field event), `lostInserts`, `unclean` (responses that came
too slowly, met another one under the same object, or were encoded after the
thread had parsed another stream), `shifted` (a table change still under way
when the first response field is) and `shared` (streams whose object had, at some
time, the address of another worker's).

**Logger.** Each sniffer runs `Init` (fails, or sets the client and starts its
workers) and then logs; workers take, index and go on. An event that is not written
is in `lost`; of those also in `silent` (`DropSilently`) the log has no line. The
others were given up because a queue was full or an index call failed, and are
reported. `Stop` is the end of the daemon, by a signal or a fatal error, at any
time.

**Inspection.** Operators for one message: `AnalyseReq` with the detectors in
their order and what each looks at, `decodeBody` by encoding, soundness and size,
and masking of headers, JSON trees and texts. A body with a fault behind
`maxDecompressedSize` is decoded up to there, because the reader stops before the
fault; one with a fault within it is logged as it came. `Shown` says where a document
shows a secret: in its headers, its body or its path. Nothing masks a path. Patterns
and regular expressions
are abstracted to what they find. Recursion over a JSON tree is written as a
recursive function on the set `JSON` of trees, closed under their parts
(`JsonAssumption`); `Height` is the depth of a tree, which the proofs descend along.

**Pipeline.** What both sniffers do with each message, as steps: `LogDetection`,
`Decide` (a lookup and a store of the client's state, between which the other
sniffer may run; the Go runtime may end the daemon when it sees that),
`AddBlocked`, and `LogMessage` with decoding and masking. `documents` has what
`LogRequest` and `LogResponse` (`Document`) and `LogDetection` (`DetectionDocument`, with
the path and nothing else of the request) are given. It extends `Logger`, so
that a detection goes down to the documents in Elasticsearch. The block list
behind `AddBlocked` is a set here and detailed in `BlockList`.

## 3. Runs

Configurations give CONSTANTs their values, by `=` or by `<-` to a definition of
the MC module, and replace nothing else. Deadlock is checked where the system
goes on for ever (`blocklist`, `rate_limit`), and not where the model
stops when its bounded input (sessions, frames, events, reads) is used up.

| Run | Instance | Shows |
|---|---|---|
| `blocklist` | two IPv6 addresses, one blocked alone and both as a prefix, a trie of 2 that refuses even a renewal when it is full, clock to 2, one writer, CPU and collector, one failing call | `TypeOK`, `Enforced`, `DropJustified`, `ExpiredReclaimed` |
| `token_bucket` | one source, one token every two ticks | `TypeOK`, `RateBound`, `SlowNeverRefused` |
| `rate_limit` | one source steered to one CPU and one to two CPUs, an LRU map of 1 | `IsTokenBucket` for the first, `BurstLimit` for both |
| `ssl_hook` | two clients and an upstream on two workers with two descriptors and SSL addresses each, a ring of 1, calls of up to two units against a buffer of one, one eviction | `TypeOK`, `InboundAttribution`, `ThreadStateConsumed`, `NeverBlamesALiveClient` |
| `capture` | an HTTP/1.1 and an HTTP/2 session on one worker, at the same time or one after the other, reads of up to three units against a buffer of two, so that some fill it and some are cut; requests of two units and one, responses | `WholeMessages`, `NothingMissed`, `ConnectionsReleased`, `PoisonReportedOnce`, `BadIsBlocked` |
| `reassembly`, HTTP/2 | three streams and room for two, four blocks of up to three fragments against a limit of two, bodies of up to two units against a limit of one, pushes, forbidden frames and gaps | `TypeOK`, `StreamsBounded`, `HpackInSync`, `EmittedIsSent`, `EmittedOnce`, `KeptStreamsAreOpen`, `PoisonIsFinal`, `BlocksAreContiguous` |
| `reassembly`, HTTP/1.x | both directions, every sequence of up to three messages of five and seven kinds, every cut | `HandedOnWhenWhole`, `CloseDelimitedPrefix` |
| `h3_sniffer` | two streams, of one worker or of two, on objects at two addresses or at one, at the same time or one after the other, rings of two; six plans: requests of two fields, a request of one with its response, responses of two fields and of one, every table instruction, a table that grows during a response, responses after inserts on the same object | `TypeOK`, `RequestsWhole`, `ResponsesWhole`, `NamesResolved`, `TableInStep`, `EverythingReported` |
| `pipeline` | two sniffers whose `Init` fails or succeeds, queues of one; JSON trees of up to three levels, texts and compressed bodies of every kind; paths with and without a secret; requests with attacks in the path, the body or both, from one client for both sniffers and from one that cannot be blocked | `TypeOK`, `EachEventOnce`, `DetectionsAct`, `SecretsMasked`, `NeverHeldUp`, `QueueDrains` |

The bounds are the smallest at which the case of interest happens. Nesting needs
two prefixes on one address; a race of the collector needs a block, its expiry
and a renewal, hence a clock of three values. The two address families run the
same code on two tries; a configuration uses one of them, and the sweep of the
empty IPv4 trie comes before the one that matters. Reuse of a descriptor or
address needs two sessions; evictions need one more source than entries; a queue
or ring of one or two is full at once. Streams interact pairwise in the code
(one against the limit, one block in assembly), so that three are one more than a
pair. In HTTP/3 two streams are the fewest that share or reuse an object, and a
response of two fields the shortest that a pause can split; what is independent
(requests, responses, tables) is varied in separate plans, because each goroutine
works on its own part. `ssl_hook` and `capture` use the symmetry of workers, descriptors and SSL
addresses; both check invariants only.

Four runs end in a counterexample, where the code departs from its own comments;
`PROJECT.json` quotes them under `findings`:

* `blocklist_renewal`: the collector deletes by key what it found expired earlier
  and can delete an entry renewed in between.
* `rate_limit_stale`: on two CPUs `now` may be older than `last_updated_at`; the
  unsigned difference wraps and fills the bucket.
* `capture_two_workers`: the daemon keys by SSL address, the kernel by address
  and process.
* `capture_first_read`: the read that completes the preface is fed as whole
  even if it was cut. This is about HTTP/2, where the comment promises that a cut
  read is noticed; of cut reads in HTTP/1.1 no comment says anything.

The passing properties about the same code are stated around these and around
other limits of the code: `Enforced` excepts keys whose renewal raced a deletion
and addresses hidden by an expired longer prefix; `IsTokenBucket` is claimed for
the sources that reach one CPU; the attribution in `SslHook` is of inbound
sessions, because an upstream socket can inherit the `fd_to_conn` entry of a
client that left before TLS; `Capture` is checked with one worker; where a read was cut
and nothing looked (`unseen`: HTTP/1.1, or before the protocol is decided)
`WholeMessages` asks only for units of one session, and `NothingMissed` and the second half
of `BadIsBlocked` except the client, who loses requests without a line in the log and
escapes; that nobody is blocked without having sent something bad has no exception.
`KeptStreamsAreOpen` excepts streams that the other endpoint reset, which the code does
keep. The frames that a faulty peer sends are those that do not belong in or outside a
header block and gaps, not DATA or HEADERS on a stream that has ended, so that
`EmittedOnce` says nothing of these;
`EmittedIsSent` excepts streams of which a header block was dropped at the limit,
whose trailers may come back as a message. In `H3Sniffer` each exception is a
history variable (see above): fields that an aborted request leaves pending go
into the next request under the same object; a response is told by a pause, and
its object by what the thread parsed last; a table instruction and a field that
refers to it are in different rings; and the daemon knows a connection object by its
address alone (`http3_sniffer.go:212`, `:290`), so that streams of two workers at one
address put their fields in one request and their inserts in one table. The run makes
all of this happen, and the properties say what holds of every other stream; they do not
show that the excepted cases are harmless, and these are not. `EachEventOnce` lets
an event go without a line in the log only before a worker of its sniffer's has been
started. `DetectionsAct` excepts a client that `AddBlocked` refused, and says that
there is no third outcome.
`SecretsMasked` says that nothing is shown but in the path: `/?password=x` is logged as
it came, with the request (`logger.go:150`) and with the detection (`:187`). Elsewhere
it is about names that say they are secret and texts that a pattern finds: a body that
cannot be decoded is logged as it came, strings inside JSON are not searched for
patterns, and JSON cut at 8 MiB is masked as text. No comment or document of the
repository denies any of these exceptions, so they are listed as hazards with a note and
not as findings.

**Fairness.** `BlockList!FairSpec` needs only that the collector's goroutine runs
and its system calls return, with finitely many failures. `PipelineSpec`
lets the two sniffers run and asks nothing of the workers, so that `NeverHeldUp`
covers workers that hang for ever; `QueueDrains` assumes in its own statement
(`WorkersFair`) that workers run and index calls return, which their five-second
timeout gives. `H3Sniffer!Fairness` is that each of the four goroutines runs, that
a lock held for a few statements is released, and that time passes; nginx may
stop at any point.

## 4. Proofs

`BlockListProofs` proves, for every set of hosts, prefixes, writers and CPUs and
every bound:

* `TypeCorrect`: `Spec => []TypeOK`;
* `BlockEnforced`: `Spec => []Enforced`;
* `DropIsJustified`: `Spec => DropJustified`.

`Enforced` is not inductive: whether the collector may delete a key depends on
what it put in its list earlier. The inductive invariant `IInv` adds `Recorded`
(an entry's expiry is that of the last acknowledged call), `Collected` (what is
in the collector's list was expired when it was read, or has been renewed since,
which is what `raced` records), `Kept` (a block that is due is in the trie),
`SweepClock` (the collector's clock is not ahead) and `Finite`. From `Kept`,
`Enforced` follows by the longest match, which `PrefixAssumption` provides.
There is one lemma or step for each action.

`TokenBucketProofs` proves `TypeCorrect`, `RateIsBounded` and
`SlowIsNeverRefused` for every `BURST` and `NS_PER_TOKEN`. The invariant is the
bucket's account: tokens left plus packets admitted cost at most BURST plus the
tokens earned between `born` and `last` (`Paid`), and `last` is at most `prev`,
`prev` is not in the future and less than one token's time after `last`
(`Remainder`). `NewTokensBound`, `RefilledBound` and
`ScaledShift` are the arithmetic they rest on.

`RateLimitProofs` proves, for any sources, CPUs, steering and limits:

* `BurstHolds`: `Spec => []BurstLimit`, for every source. The types and the
  steering (`Base`) are inductive by themselves: whatever other CPUs stored
  between, a packet stores a number from 0 to BURST that it computed from one.
* `RateLimitIsTokenBucket`: `Spec => IsTokenBucket`, the refinement, for the
  sources that reach one CPU (`Pinned`). `IInv` adds that the map keeps an entry
  a CPU has a pointer to (`Kept`), that no such bucket is ahead of the clock
  (`Past`), and that what a CPU loaded is what the bucket still holds, but for the
  stores it has made (`Current`). From these no sum or difference wraps
  (`LoadedSmall`, `FoundTokens`), and each step is a step of the bucket
  (`SeenInsert`, `SeenRefuse`, `SeenStore`, `SeenTick`) or changes nothing that
  the bucket sees (`Unseen`, `UnseenLoad`, `Invisible`).
* `PinnedRateIsBounded` and `PinnedSlowIsNeverRefused`: what `TokenBucketProofs`
  shows of the bucket, carried over to the program by the refinement.

The proof needs that the clock stays below the word (`BURST + MaxTime < Word`):
2^64 nanoseconds are 584 years.

`Http2Proofs` is about any set of streams, any limits and any peer, faulty or not.

* `TypeCorrect` and `StreamsAreBounded` follow from `IInv`: types, the limit, and
  that a poisoned direction keeps nothing; every path that adds a stream goes
  through `full` first.
* `DecoderInStep`: `Spec => []HpackInSync`. `HpackInSync` does not say which block
  is being assembled, so it is not inductive: `InSync` adds that while the
  direction is not poisoned the open block is the one the peer is sending, on the
  same stream, and that the decoder has seen exactly the blocks before it. A faulty
  frame either poisons or changes neither (`FaultySync`, by the kinds of faulty
  frame in `FaultyKinds`).
* `EmittedAsSent`, `EndedStreamsAreEmittedOnce`, `KeptAreOpen`: `Spec =>
  []EmittedIsSent`, `[]EmittedOnce`, `[]KeptStreamsAreOpen`. What is emitted was put
  together over many frames, so the invariant `Exchange` follows each stream from
  its first frame: what the parser keeps of a stream that was not dropped is what
  the peer has sent on it (`FollowedWhole`), the parser is at the same place of the
  same block as the peer (`SameAsm`), and what has been emitted belongs to a stream
  on which the peer cannot send again (`EmittedWhole`, `EndsAreFinal`), which is
  why it stays whole and is not emitted a second time.
* `PoisonedForGood` and `BlocksAreWhole`: the action properties `PoisonIsFinal` and
  `BlocksAreContiguous`, from the same invariants. `OnlyTheTarget` says that a frame
  that ends a block touches no stream but the one the block began with.

`CaptureProofs` is about the probes alone (`HookSpec`) and joined to the daemon
(`Spec` of `Capture`), for any sessions, workers, descriptors, SSL addresses and
sizes.

* `HookInvariant`: `HookSpec => []IInv`. The properties speak of events and of
  dead threads' state only; what makes them inductive is who owns what. `Calls`
  ties what the maps keep for a thread to the call it is in, `Exclusive` says that
  a descriptor and an SSL address belong to one session at a time, `Owners` that
  whatever a map or an event says is the session that has the key or a dead one,
  and `Chain` that while nothing was evicted the chain accept, `SSL_set_fd`,
  `SSL_read` is whole for every inbound session.
* `HookTypeCorrect`, `ThreadStateIsConsumed`, `InboundIsAttributed`,
  `LiveClientsAreNotBlamed` are what follows for `TypeOK`, `ThreadStateConsumed`,
  `InboundAttribution` and `NeverBlamesALiveClient`.
* `CaptureRefinesHook`: `Spec => HookSpec`. Each turn of the daemon's loop is, to
  the probes, a reader that takes the oldest event; `CaptureInherits` carries the
  four properties over.
* `ConnectionsAreReleased`: `Spec /\ []HasRoom => []ConnectionsReleased`. The
  condition is that the ring buffer never fills up, which is when `ssl_free_entry`
  loses the close event for good; it needs nothing of the workers or of evictions.
  `Released` is about a whole ring, not an empty one: whatever is under an address,
  in the daemon or in an event, is followed by a close event of the address or
  belongs to an open session.
* `PoisonIsReportedOnce`: `Spec /\ []Orderly => []PoisonReportedOnce`, without
  TLS upstreams. `Orderly` adds to `HasRoom` that the kernel has evicted nothing and
  that no two open sessions have one SSL address, which one worker guarantees
  (`UnsharedByOneWorker`) and two do not (run `capture_two_workers`). `poisonLogs`
  counts reports by client; events of TLS upstreams and of evicted clients have no
  client, so that their reports could not be told apart. The
  invariant (`Reporting`) is about the order of the ring: a session's events come
  before its close event, and that before the next session on the address
  (`Ordered`, `Owned`), so that the connection of a client that was reported stays
  marked until its last event (`ReportedOk`). `NoneIsNoConnection` says that no
  connection is the absent entry of the daemon's map.
* `OnlyWholeMessages`, `NothingIsMissed`, `BadClientsAreBlocked`: `Spec /\ []Orderly
  => []WholeMessages`, and the same for `NothingMissed` and, without TLS upstreams,
  for `BadIsBlocked`. They hold for all cuts of any plaintext of whole messages, one
  after the other, of which only the first of a client may be the HTTP/2 preface
  (`PlaintextAssumption`), and for calls and capture buffers of any size: a call may
  exchange more than an event holds, and the properties themselves say what holds of a
  direction of which a part was cut unseen. They follow from `CaptureInvariant`.
  The properties speak of what was logged, and nothing in the state says how much of a
  session the daemon has taken: `Capturing` says that there is such a place `at[s]` in
  each direction of each session, and a session `own[p]` for each connection, and
  * the pending events carry the plaintext from that place to where nginx is, in order,
    each the beginning of what one call exchanged, and all of it unless it fills the
    buffer (`Flow`, `Pending`);
  * the connection under an address is of one session, its buffers hold the plaintext
    from the last whole message to that place (`Has`) or, in a direction that is in
    `unseen`, units of the session from before that place, and it is reported when it is
    given up (`KeptAt`, `Holds`);
  * nothing was taken of a session yet, or its connection is kept, or it is over and
    has no event left (`Phase`), so that no session goes on in a fresh connection;
  * every request that ends before that place is in the log (`Caught`), but for clients
    that were given up or cut unseen; what is in the log is whole, or made of units of
    one session where a part is missing (`Sound`, `Says`, `IsScrap`); and the clients of
    bad requests are blocked, and no other (`Blamed`).

  `TurnTakes` is what one turn does to a connection, by the protocol it has, has
  just got (`BecomesTakes`: the preface may come in pieces, and with the first
  requests) or does not have yet (`UndecidedTakes`). What the parsers take from a
  buffer that begins where a message does (`ParsedWhole`) is about the recursive
  function `Ends`; it is shown without an induction theorem, by the least place where it
  would not hold.

`Http1Proofs` proves `Http1Invariant`, `WholeMessagesAreHandedOn`
(`[]HandedOnWhenWhole`) and `CloseDelimitedIsHandedOn` (`[]CloseDelimitedPrefix`), for
any requests and responses whose bodies are what their heads announce
(`Http1Assumption`), any number of them and any cutting into reads.

* The invariant `Http1Inv` names all that the peer sends, `D`, and where each message
  in it ends, `L` (`WireIs`). After `read` tokens either the whole messages are in
  `out` and the buffer is what follows the last of them (`Between`), or the last
  message is a response that the end of the connection ends, it was handed on with
  what there was of its body, and what is left in the buffer can only be body
  (`Within`). The second half is needed because `ParseResponse` consumes such a
  response again and again: what comes later is no message and must not become one.
* A buffer is compared with the message it begins with: as long as it is shorter than
  the message, `Parse` uses nothing (`ParseBeforeWhole`), and from then on it uses
  exactly the message and gives its body (`ParseMessage`), whatever follows. In
  between are the header (`HeaderSeen`), the chunks from the last one back
  (`ChunksKnown`) and the trailers.
* `chunks`, `trailing` and `drain` are recursive functions on places in a buffer. That
  they satisfy their equations (`ChunksRecursion`, `TrailingRecursion`,
  `DrainRecursion`) and what they come to is shown from the end of the buffer to its
  beginning, by the last place where it would not hold.

`PipelineProofs` is about `Logger` first, and proves `LoggerInvariant`,
`LoggerTypeCorrect` and `EventsAreLoggedOnce` (`[]EachEventOnce`) for any sniffers,
queues, capacity and number of events. `EachEventOnce` counts the places of an event,
so that the proof is about cardinalities: `Total` splits the count into queue,
workers, index and losses, and each action moves one from one term to another. It is
inductive with `StateType`, which says that a queue holds only its own events and that
every worker is idle or at one event, and with `Silence`, which says when an event can
have been dropped without a line in the log. Of `Pipeline` it proves

* `PipelineRefinesLogger`: `PipelineSpec => Spec` of `Logger`; what the sniffers do
  between their calls of the log changes nothing there, so that
  `PipelineLogsOnce` carries `TypeOK` and `EachEventOnce` over;
* `DetectionsHaveConsequences`: `PipelineSpec => []DetectionsAct`, whatever the
  two sniffers do to each other's counts. The invariant adds `Owed`: between a
  detection and the log the message in hand is the one that was detected, and at
  the log its client is blocked or was refused. It rests on one detection being
  enough (`Score >= Limit` in `PipelineAssumption`, 90 and 70 in the code).
* `OnlyPathsShowSecrets`: `PipelineSpec => []SecretsMasked`. Every document is what
  `Document` or `DetectionDocument` makes of a message in hand (`DocumentsShowNothing`,
  `DetectionsShowThePath`), and `MaskingReachesEveryDepth` shows of the recursive function
  `maskJSON` that it leaves no value under a secret name: of the trees for which it did
  not, one would have the least height and so only parts for which it does.

`H3SnifferProofs` is about any streams, workers, objects, plans, static table and
ring sizes, objects of several workers at one address included, and states each safety
property of the run. What a stream in `shared` is excepted from is in the properties;
a stream that is not in it has been alone at its address as long as it had one (`Met`). All of them are about
what is on its way in a ring buffer, so that the invariants say of every event how
it continues the one before it for the same object, and `Ahead` counts the events
of an object before a place in a ring (`AheadNext`, `AheadAppend`, `AheadTail`).

* `TypeCorrect`: `[]TypeOK`, from `Types`: no object of a worker is held by two streams
  (`OwnObject`), and the base of a response does not exceed its table.
* `TablesInStep`: `[]TableInStep`, from `NameInv` (below) and `Counted`: what nginx has
  in the table of a stream's object is what the stream has inserted. `Coming` says that
  the entry a pending event brings will be where nginx has it and that what it refers to
  comes before it; this is what makes `resolveLive` find an entry by its distance from
  the end, whatever the users of the address before have left in the copy.
* `RequestsAreWhole`: `[]RequestsWhole`. `RequestInv` is `Chain` (each event goes
  on where the one before it left off, the last one where the stream is now),
  `Pieces` (what is pending without fields of a broken stream is the beginning of a
  request) and `Apart` (a stream has its fields under one object, and none once it
  has been reported), each but for streams in `Mixable` or `shared`. `Chain` is needed because `takeReqFields` takes whatever has
  accumulated under an address.
* `ResponsesAreWhole`: `[]ResponsesWhole`. Nothing tells the end of a response, so
  `ResponseInv` follows a stream that is not unclean over the three places its
  fields can be in: pending, in the hand of `respEventLoop`, in the ring
  (`Together`, `UnderWay`); `Sending` ties them to what nginx has sent, and
  `Flushed` says what has been taken or emitted. `IdleIsWhole` is the point where
  the timer's answer is right: what is idle and not unclean is complete.
* `NamesAreResolved`: `[]NamesResolved`. `TableInStep` is of no help after a lost
  event, and a name must be right also then if the stream lost none of its own. So
  `NameInv` has `Suffixes` (what a stream has inserted is at the end of nginx's table
  and, when the events on their way have come, at the end of the copy), `Referred`
  (the entries a pending response refers to are in both, each at its own base) and
  `Resolved`. `FoundAtStart` shows that the base is right when it is taken,
  `InsertNames` and `ReadTableNames` that growing tables do not disturb it.

The assumptions are those of the modules: `BoundsAssumption` and
`PrefixAssumption` (`BlockList`), `BucketAssumption`, `RateAssumption`,
`Http1Assumption`, `Http2Assumption`, `HookAssumption` (`SslHook`), `LoggerAssumption`,
`PlaintextAssumption` (`Capture`), `JsonAssumption` and `MaskingAssumption`
(`Inspection`), `PipelineAssumption`, `H3Assumption` and `NoneAssumption` (HTTP/3).
Most give constants their types and keep `None` apart
from values. Those that say more: `PrefixAssumption`, that of the prefixes on an
address one is the longest; `RateAssumption`, that the clock stays below the word;
`PlaintextAssumption`, that what is captured is HTTP, cut off anywhere;
`Http1Assumption`, that a message keeps the framing of its head (a `Content-Length` is
the length of the body, a chunk is not empty, a 1xx, 204 or 304 has no body) and that
a body does not hold what is a head, a chunk size or a trailer;
`JsonAssumption`, that a tree is higher than its parts, as every finite tree is;
`MaskingAssumption`, that a masked tree is a tree; `Score >= Limit`; and, in
`H3Assumption`, what nginx guarantees of QPACK: an instruction or a field
refers to a static entry that exists or to one that its own stream has
inserted. TLC evaluates them in every run.

Only model-checked:

* liveness (`ExpiredReclaimed`, `NeverHeldUp`, `QueueDrains`,
  `EverythingReported`), which is out of the prover's reach;
* what happens in `Capture` outside `Orderly`, of which `capture_two_workers` shows one
  case, and that a poisoned direction was poisoned by a cut (`DesyncIsPoisoned`), which
  the code does not keep (`capture_first_read`).

The library's induction theorems cannot be used here; where a proof needs induction
over data (`Ends`, `maskJSON`, the recursive functions of `Http1`) it takes
the least element for which a statement fails (`WFMin`, `NatLessThanWellFounded`).

## 5. Not modelled

* The pattern tables and regular expressions: an attack has a kind and a place, a
  text is what patterns find in it. One entry cannot match: `xmlhttpRequest`
  (`internal/analysis/analyse.go:101`) has a capital letter and is looked for in
  text that was put in small letters.
* `buildRequest` and `buildResponse` of the HTTP/2 and HTTP/3 code: how fields are
  laid out in a message. HTTP/3 texts, and the masks on their lengths.
* Limits that do not exist: HTTP/1.x buffers and QPACK tables grow without one.
* Elasticsearch templates (`ensureSecurityTemplate` has no caller), request ids,
  `DumpMap`, printing: no effect on the state.
* Loading, attaching, and closing the ring buffer on a signal.
* Responses to HEAD in `Http1`, and a ring buffer that overflows in `Capture`:
  the code gives no promise that would hold there; `PROJECT.json` lists both as
  hazards.

## 6. Plan

Done: the modules above, in this order: BlockList, TokenBucket, RateLimit,
SslHook, Sniffer, Capture, Http2, Http1, Logger, H3Probes, H3Sniffer, Inspection,
Pipeline, Reassembly; and the proofs of section 4.

Next, in order of importance:

1. An abstract specification of the HTTP/3 capture in which each request is
   reported in one step, refined by `H3Sniffer` for streams that are not broken.
2. Runs for a ring buffer that overflows in `Capture`, and for HEAD.
