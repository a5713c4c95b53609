----------------------------- MODULE RateLimit -----------------------------
(****************************************************************************)
(* check_ratelim_ipv4 and check_ratelim_ipv6 of bpf/xdp_filter.bpf.c on     *)
(* several CPUs. The bucket of a source is two plain 64-bit fields in an    *)
(* LRU hash map: nothing locks it, so a packet is the loads and the stores  *)
(* that the compiled function makes, each one atomic. The fields are loaded *)
(* once into registers and the stores may come in either order. The clock   *)
(* was read when the program was entered.                                   *)
(****************************************************************************)
EXTENDS Integers, FiniteSets

CONSTANTS
  Sources,
  NoSource,      \* no packet
  Cpus,
  Steer,         \* [Cpus -> SUBSET Sources]: what the NIC hands to each CPU
  BURST,
  NS_PER_TOKEN,
  Word,          \* 2^64
  MaxEntries,    \* max_entries of the LRU map
  MaxTime        \* bound: the clock

ASSUME RateAssumption ==
  /\ NoSource \notin Sources
  /\ Steer \in [Cpus -> SUBSET Sources]
  /\ {BURST, NS_PER_TOKEN, Word, MaxEntries} \subseteq Nat \ {0}
  /\ MaxTime \in Nat /\ BURST + MaxTime < Word

VARIABLES
  now,       \* bpf_ktime_get_ns
  known,     \* sources with an entry in ratelimit_per_ipv4 / ratelimit_per_ipv6
  last,      \* last_updated_at of each
  tokens,    \* tokens of each
  cpu,       \* per CPU: program counter and registers
  born,      \* history: when the bucket of a source was made
  admitted,  \* history: packets passed against that bucket
  prev       \* history: arrival time of the last packet that was decided

bucket == <<known, last, tokens>>
history == <<born, admitted, prev>>
vars == <<now, bucket, cpu, history>>

Smaller(m, n) == IF m <= n THEN m ELSE n

Registers(pc, s, t) ==
  [pc |-> pc, src |-> s, now |-> t, last |-> 0, new |-> 0, old |-> 0, tokens |-> 0, todo |-> {}]
Idle == Registers("idle", NoSource, 0)

Init ==
  /\ now = 0
  /\ known = {}
  /\ last = [s \in Sources |-> 0]
  /\ tokens = [s \in Sources |-> 0]
  /\ cpu = [c \in Cpus |-> Idle]
  /\ born = [s \in Sources |-> 0]
  /\ admitted = [s \in Sources |-> 0]
  /\ prev = [s \in Sources |-> 0]

Tick ==
  /\ now < MaxTime
  /\ now' = now + 1
  /\ UNCHANGED <<bucket, cpu, history>>

PacketIn(c, s) ==
  /\ cpu[c].pc = "idle"
  /\ s \in Steer[c]
  /\ cpu' = [cpu EXCEPT ![c] = Registers("lookup", s, now)]
  /\ UNCHANGED <<now, bucket, history>>

Lookup(c) ==
  /\ cpu[c].pc = "lookup"
  /\ cpu' = [cpu EXCEPT ![c].pc = IF cpu[c].src \in known THEN "last" ELSE "insert"]
  /\ UNCHANGED <<now, bucket, history>>

\* The map may drop any entry that no CPU has a pointer to.
Evictable == {s \in known : \A c \in Cpus : cpu[c].src = s => cpu[c].pc \in {"lookup", "insert"}}

\* BPF_NOEXIST; the packet passes whether or not the update succeeds.
Insert(c) ==
  LET s == cpu[c].src IN
  /\ cpu[c].pc = "insert"
  /\ s \notin known
  /\ \/ Cardinality(known) < MaxEntries /\ known' = known \cup {s}
     \/ /\ Cardinality(known) = MaxEntries
        /\ \E v \in Evictable : known' = (known \ {v}) \cup {s}
  /\ last' = [last EXCEPT ![s] = cpu[c].now]
  /\ tokens' = [tokens EXCEPT ![s] = BURST - 1]
  /\ born' = [born EXCEPT ![s] = cpu[c].now]
  /\ admitted' = [admitted EXCEPT ![s] = 1]
  /\ prev' = [prev EXCEPT ![s] = cpu[c].now]
  /\ cpu' = [cpu EXCEPT ![c] = Idle]
  /\ UNCHANGED now

\* Another CPU was first, or no entry can be evicted.
InsertFails(c) ==
  /\ cpu[c].pc = "insert"
  /\ cpu[c].src \in known \/ (Cardinality(known) = MaxEntries /\ Evictable = {})
  /\ cpu' = [cpu EXCEPT ![c] = Idle]
  /\ UNCHANGED <<now, bucket, history>>

\* elapsed is unsigned: it wraps when the entry is younger than the packet.
LoadLast(c) ==
  LET elapsed == (cpu[c].now - last[cpu[c].src]) % Word IN
  /\ cpu[c].pc = "last"
  /\ cpu' = [cpu EXCEPT ![c].pc = "tokens", ![c].last = last[cpu[c].src],
                        ![c].new = elapsed \div NS_PER_TOKEN]
  /\ UNCHANGED <<now, bucket, history>>

Refilled(c) ==
  LET tok == tokens[cpu[c].src] IN
  IF cpu[c].new > 0 THEN Smaller((tok + cpu[c].new) % Word, BURST) ELSE tok

LoadTokens(c) ==
  /\ cpu[c].pc = "tokens"
  /\ Refilled(c) > 0
  /\ cpu' = [cpu EXCEPT ![c].pc = "store", ![c].old = tokens[cpu[c].src],
                        ![c].tokens = Refilled(c) - 1,
                        ![c].todo = {"tokens"} \cup IF cpu[c].new > 0 THEN {"last"} ELSE {}]
  /\ UNCHANGED <<now, bucket, history>>

Refuse(c) ==
  /\ cpu[c].pc = "tokens"
  /\ Refilled(c) = 0
  /\ prev' = [prev EXCEPT ![cpu[c].src] = cpu[c].now]
  /\ cpu' = [cpu EXCEPT ![c] = Idle]
  /\ UNCHANGED <<now, bucket, born, admitted>>

\* The packet has passed once both fields are stored.
Stored(c, field) ==
  LET s == cpu[c].src
      over == cpu[c].todo = {field} IN
  /\ cpu' = [cpu EXCEPT ![c] = IF over THEN Idle
                                    ELSE [cpu[c] EXCEPT !.todo = @ \ {field}]]
  /\ admitted' = IF over THEN [admitted EXCEPT ![s] = @ + 1] ELSE admitted
  /\ prev' = IF over THEN [prev EXCEPT ![s] = cpu[c].now] ELSE prev
  /\ UNCHANGED <<now, known, born>>

\* Variant: the decrement is made in memory.
SpentInMemory(c) == tokens[cpu[c].src] - 1
Spent(c) == cpu[c].tokens

StoreTokens(c) ==
  /\ cpu[c].pc = "store" /\ "tokens" \in cpu[c].todo
  /\ tokens' = [tokens EXCEPT ![cpu[c].src] = Spent(c)]
  /\ Stored(c, "tokens")
  /\ UNCHANGED last

\* Variant: the remainder of a token's time is dropped.
AdvancedToNow(c) == cpu[c].now
Advanced(c) == (cpu[c].last + cpu[c].new * NS_PER_TOKEN) % Word

StoreLast(c) ==
  /\ cpu[c].pc = "store" /\ "last" \in cpu[c].todo
  /\ last' = [last EXCEPT ![cpu[c].src] = Advanced(c)]
  /\ Stored(c, "last")
  /\ UNCHANGED tokens

Cpu(c) ==
  \/ \E s \in Sources : PacketIn(c, s)
  \/ Lookup(c) \/ Insert(c) \/ InsertFails(c)
  \/ LoadLast(c) \/ LoadTokens(c) \/ Refuse(c) \/ StoreTokens(c) \/ StoreLast(c)

Next == Tick \/ \E c \in Cpus : Cpu(c)

Spec == Init /\ [][Next]_vars

-----------------------------------------------------------------------------
(* Properties.                                                              *)

\* The sources whose packets all reach one CPU.
Pinned == {s \in Sources : \A c, d \in Cpus : s \in Steer[c] \cap Steer[d] => c = d}

\* A CPU that is between its two stores has half written the bucket: the
\* promise is about what it loaded until the packet is decided.
Storing(s) == {c \in Cpus : cpu[c].pc = "store" /\ cpu[c].src = s}
Loaded(s) == cpu[CHOOSE c \in Storing(s) : TRUE]
PromisedLast == [s \in Pinned |-> IF Storing(s) = {} THEN last[s] ELSE Loaded(s).last]
PromisedTokens == [s \in Pinned |-> IF Storing(s) = {} THEN tokens[s] ELSE Loaded(s).old]
Promise == INSTANCE TokenBucket WITH
  Sources <- Pinned,
  known <- known \cap Pinned,
  last <- PromisedLast,
  tokens <- PromisedTokens,
  born <- [s \in Pinned |-> born[s]],
  admitted <- [s \in Pinned |-> admitted[s]],
  prev <- [s \in Pinned |-> prev[s]]

\* For a source whose packets all reach one CPU the unlocked loads and stores
\* are a token bucket, so that they bound its rate and never refuse it when it
\* is slow, whatever other sources and CPUs do to the map they share.
IsTokenBucket == Promise!Spec

\* However the CPUs interleave, a bucket holds at most BURST tokens and never
\* goes below zero (bpf/xdp_filter.bpf.c:115 "limits max tokens at any instant
\* to BURST value").
BurstLimit == \A s \in known : tokens[s] \in 0 .. BURST

\* "time spent and tokens accumulated" (bpf/xdp_filter.bpf.c:105): the tokens a
\* packet brings in are those of the time that passed before it.
TokensAreTimeSpent ==
  \A c \in Cpus : cpu[c].pc = "tokens" => cpu[c].new * NS_PER_TOKEN <= cpu[c].now

=============================================================================
