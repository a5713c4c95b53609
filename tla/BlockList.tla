------------------------------ MODULE BlockList ------------------------------
(****************************************************************************)
(* The edge block list: two kernel LPM tries (one per address family) that  *)
(* AddBlocked fills from user space, the XDP program consults on every      *)
(* packet, and a garbage collector sweeps every ten seconds                 *)
(* (internal/filter/filter.go, bpf/xdp_filter.bpf.c).                       *)
(*                                                                          *)
(* An address is a member of Hosts and a prefix is the set of the addresses *)
(* it covers, so that "longest prefix" is "smallest set".                   *)
(****************************************************************************)
EXTENDS Naturals, FiniteSets

CONSTANTS
  Hosts,          \* source addresses
  V6Hosts,        \* those that are IPv6
  Prefixes,       \* the CIDR blocks that AddBlocked is given
  Malformed,      \* an argument net.ParseCIDR rejects
  Mapped,         \* an IPv4-mapped IPv6 address: a /128 key for the IPv4 trie
  Writers,        \* goroutines that call AddBlocked
  Cpus,           \* CPUs that run the XDP program
  Durations,      \* block durations
  MaxEntries,     \* max_entries of each trie
  ReplaceInFull,  \* does this kernel replace a value in a full trie?
  MaxTime,        \* bound: the clock
  MaxHits,        \* bound: hit_count
  MaxGcErrors     \* bound: failed iterations and deletions

ASSUME BoundsAssumption ==
  /\ Durations \subseteq Nat \ {0}
  /\ {MaxEntries, MaxTime, MaxHits, MaxGcErrors} \subseteq Nat
  /\ ReplaceInFull \in BOOLEAN

\* The prefixes that contain one address form a chain with a longest one, and
\* no prefix mixes families.
ASSUME PrefixAssumption ==
  /\ \A p \in Prefixes : p \subseteq Hosts /\ (p \subseteq V6Hosts \/ p \cap V6Hosts = {})
  /\ \A h \in Hosts : \A S \in SUBSET {p \in Prefixes : h \in p} :
       S # {} => \E p \in S : \A q \in S : p \subseteq q
  /\ {Malformed, Mapped} \cap Prefixes = {}

VARIABLES
  now,      \* the monotonic clock, CLOCK_MONOTONIC and bpf_ktime_get_ns alike
  trie,     \* keys present in lpm_map and lpm_map_ipv6
  info,     \* the block_info of each key
  call,     \* per writer: its AddBlocked call
  cpu,      \* per CPU: the packet in the XDP program
  gc,       \* the goroutine of StartGC
  gcErrors, \* system calls of the collector that failed so far
  promise,  \* history: expiry of the last AddBlocked(key) that returned nil
  raced     \* history: keys whose last AddBlocked met a collector about to delete them

vars == <<now, trie, info, call, cpu, gc, gcErrors, promise, raced>>

Families == {"v4", "v6"}
Family(p) == IF p \subseteq V6Hosts THEN "v6" ELSE "v4"
KeysOf(f) == {p \in trie : Family(p) = f}

\* An expiry of 0 stands for "never".
Expired(expires, t) == expires # 0 /\ t > expires

\* bpf_map_lookup_elem on an LPM trie.
Longest(h, p) ==
  /\ p \in trie /\ h \in p
  /\ \A q \in trie : h \in q => p \subseteq q

\* check_block on what the lookup returned.
Dropped(h, t) == \E p \in Prefixes : Longest(h, p) /\ ~Expired(info[p].expires, t)

Returned(st) == [st |-> st, key |-> Malformed, expires |-> 0]
Verdict(st) == [st |-> st, host |-> {}, now |-> 0]
NoInfo == [expires |-> 0, hits |-> 0]
Asleep == [st |-> "sleep", fam |-> "v4", now |-> 0, start |-> {}, seen |-> {}, expired |-> {}]

Init ==
  /\ now = 0
  /\ trie = {}
  /\ info = [p \in Prefixes |-> NoInfo]
  /\ call = [w \in Writers |-> Returned("ready")]
  /\ cpu = [c \in Cpus |-> Verdict("idle")]
  /\ gc = Asleep
  /\ gcErrors = 0
  /\ promise = [p \in Prefixes |-> 0]
  /\ raced = {}

Tick ==
  /\ now < MaxTime
  /\ now' = now + 1
  /\ UNCHANGED <<trie, info, call, cpu, gc, gcErrors, promise, raced>>

-----------------------------------------------------------------------------
(* AddBlocked: parse, compute the expiry, and only then enter the kernel.   *)

\* Variant: the duration is taken off.
ExpirySubtracted(d) == now - d
Expiry(d) == now + d

AddBlocked(w, cidr, d) ==
  /\ call[w].st # "put"
  /\ call' = [call EXCEPT ![w] =
       IF cidr = Malformed THEN Returned("error")
                           ELSE [st |-> "put", key |-> cidr, expires |-> Expiry(d)]]
  /\ UNCHANGED <<now, trie, info, cpu, gc, gcErrors, promise, raced>>

HasRoom(p) ==
  \/ p \in trie /\ ReplaceInFull
  \/ Cardinality(KeysOf(Family(p))) < MaxEntries

PutOk(w) ==
  LET p == call[w].key IN
  /\ call[w].st = "put"
  /\ p \in Prefixes   \* a key the trie accepts
  /\ HasRoom(p)
  /\ trie' = trie \cup {p}
  /\ info' = [info EXCEPT ![p] = [expires |-> call[w].expires, hits |-> 0]]
  /\ call' = [call EXCEPT ![w] = Returned("ok")]
  /\ promise' = [promise EXCEPT ![p] = call[w].expires]
  /\ raced' = IF p \in gc.expired THEN raced \cup {p} ELSE raced \ {p}
  /\ UNCHANGED <<now, cpu, gc, gcErrors>>

\* EINVAL for a prefix longer than the trie's keys, ENOSPC for a full trie.
PutError(w) ==
  /\ call[w].st = "put"
  /\ call[w].key \in Prefixes => ~HasRoom(call[w].key)
  /\ call' = [call EXCEPT ![w] = Returned("error")]
  /\ UNCHANGED <<now, trie, info, cpu, gc, gcErrors, promise, raced>>

-----------------------------------------------------------------------------
(* The XDP program: the clock is read first, the trie afterwards.           *)

PacketIn(c, h) ==
  /\ cpu[c].st # "lookup"
  /\ cpu' = [cpu EXCEPT ![c] = [st |-> "lookup", host |-> h, now |-> now]]
  /\ UNCHANGED <<now, trie, info, call, gc, gcErrors, promise, raced>>

\* Variant: check_block does not look at the expiry.
BlocksForever(p, t) == TRUE
Blocks(p, t) == ~Expired(info[p].expires, t)

PacketDrop(c) ==
  /\ cpu[c].st = "lookup"
  /\ \E p \in Prefixes :
       /\ Longest(cpu[c].host, p)
       /\ Blocks(p, cpu[c].now)
       /\ info[p].hits < MaxHits
       /\ info' = [info EXCEPT ![p].hits = @ + 1]
  /\ cpu' = [cpu EXCEPT ![c] = Verdict("drop")]
  /\ UNCHANGED <<now, trie, call, gc, gcErrors, promise, raced>>

\* Not blocked: the packet goes on to the rate limiter.
PacketPass(c) ==
  /\ cpu[c].st = "lookup"
  /\ ~Dropped(cpu[c].host, cpu[c].now)
  /\ cpu' = [cpu EXCEPT ![c] = Verdict("pass")]
  /\ UNCHANGED <<now, trie, info, call, gc, gcErrors, promise, raced>>

-----------------------------------------------------------------------------
(* StartGC: on each tick cleanupExpired sweeps the IPv4 and then the IPv6   *)
(* trie. A sweep reads the clock once, collects the expired keys while it   *)
(* iterates and deletes them after the iteration.                           *)

Sweep(f) == [st |-> "scan", fam |-> f, now |-> now, start |-> KeysOf(f),
             seen |-> {}, expired |-> {}]
\* Variant: only the IPv4 trie is swept.
AfterSweepV4Only == Asleep
AfterSweep == IF gc.fam = "v4" THEN Sweep("v6") ELSE Asleep

GcTick ==
  /\ gc.st = "sleep"
  /\ gc' = Sweep("v4")
  /\ UNCHANGED <<now, trie, info, call, cpu, gcErrors, promise, raced>>

\* Variant: an entry is collected while it still drops packets.
CollectsAtExpiry(p) == info[p].expires # 0 /\ gc.now >= info[p].expires
Collects(p) == Expired(info[p].expires, gc.now)

GcVisit(p) ==
  /\ gc.st = "scan"
  /\ p \in KeysOf(gc.fam) \ gc.seen
  /\ gc' = [gc EXCEPT !.seen = @ \cup {p},
                      !.expired = IF Collects(p) THEN @ \cup {p} ELSE @]
  /\ UNCHANGED <<now, trie, info, call, cpu, gcErrors, promise, raced>>

\* The iteration has met at least every key that was there when it began.
GcScanned ==
  /\ gc.st = "scan"
  /\ gc.start \subseteq gc.seen
  /\ gc' = [gc EXCEPT !.st = "delete", !.start = {}, !.seen = {}]
  /\ UNCHANGED <<now, trie, info, call, cpu, gcErrors, promise, raced>>

GcIterError ==
  /\ gc.st = "scan"
  /\ gcErrors < MaxGcErrors
  /\ gc' = AfterSweep
  /\ gcErrors' = gcErrors + 1
  /\ UNCHANGED <<now, trie, info, call, cpu, promise, raced>>

GcDelete(p) ==
  /\ gc.st = "delete"
  /\ p \in gc.expired
  /\ trie' = trie \ {p}
  /\ info' = [info EXCEPT ![p] = NoInfo]
  /\ gc' = [gc EXCEPT !.expired = @ \ {p}]
  /\ UNCHANGED <<now, call, cpu, gcErrors, promise, raced>>

GcDeleteError(p) ==
  /\ gc.st = "delete"
  /\ p \in gc.expired
  /\ gcErrors < MaxGcErrors
  /\ gc' = [gc EXCEPT !.expired = @ \ {p}]
  /\ gcErrors' = gcErrors + 1
  /\ UNCHANGED <<now, trie, info, call, cpu, promise, raced>>

GcSwept ==
  /\ gc.st = "delete"
  /\ gc.expired = {}
  /\ gc' = AfterSweep
  /\ UNCHANGED <<now, trie, info, call, cpu, gcErrors, promise, raced>>

Gc ==
  \/ GcTick \/ GcScanned \/ GcIterError \/ GcSwept
  \/ \E p \in Prefixes : GcVisit(p) \/ GcDelete(p) \/ GcDeleteError(p)

Writer(w) ==
  \/ \E cidr \in Prefixes \cup {Malformed, Mapped}, d \in Durations : AddBlocked(w, cidr, d)
  \/ PutOk(w) \/ PutError(w)

Cpu(c) == (\E h \in Hosts : PacketIn(c, h)) \/ PacketDrop(c) \/ PacketPass(c)

Next ==
  \/ Tick
  \/ \E w \in Writers : Writer(w)
  \/ \E c \in Cpus : Cpu(c)
  \/ Gc

Spec == Init /\ [][Next]_vars

\* The ticker goroutine is scheduled and its system calls return.
FairSpec == Spec /\ WF_vars(Gc)

-----------------------------------------------------------------------------
(* Properties.                                                              *)

Info == [expires : Nat, hits : Nat]

\* Types of the tries, of the calls in flight and of the collector's locals.
TypeOK ==
  /\ now \in Nat
  /\ trie \subseteq Prefixes
  /\ info \in [Prefixes -> Info]
  /\ call \in [Writers -> [st : {"ready", "put", "ok", "error"},
                           key : Prefixes \cup {Malformed, Mapped}, expires : Nat]]
  /\ cpu \in [Cpus -> [st : {"idle", "lookup", "drop", "pass"},
                       host : Hosts \cup {{}}, now : Nat]]
  /\ gc \in [st : {"sleep", "scan", "delete"}, fam : Families, now : Nat,
             start : SUBSET Prefixes, seen : SUBSET Prefixes, expired : SUBSET Prefixes]
  /\ gcErrors \in Nat
  /\ promise \in [Prefixes -> Nat]
  /\ raced \subseteq Prefixes

\* The block of p is still due and no collector was about to delete p when it
\* was (re)written.
Due(p) == promise[p] # 0 /\ ~Expired(promise[p], now) /\ p \notin raced

\* A more specific entry that has expired hides every wider one from the lookup.
Shadowed(h, p) ==
  \E q \in trie : h \in q /\ q \subseteq p /\ q # p /\ Expired(info[q].expires, now)

\* Every block AddBlocked has acknowledged drops the packets of every address
\* it covers until it expires, whatever the collector, the other writers and a
\* full trie do, except for the two ways this code has of losing it: a renewal
\* between the collector's scan and its deletion, and an expired more specific
\* entry that the collector has not removed yet.
Enforced ==
  \A p \in Prefixes : \A h \in p : Due(p) => Dropped(h, now) \/ Shadowed(h, p)

\* What a CPU decides about a packet, against the calls that returned: it drops
\* only for a block that covers the source and was not over when the packet
\* came in, although the entry is looked up later than the clock is read.
DropStep ==
  \A c \in Cpus : cpu[c].st = "lookup" /\ cpu'[c].st = "drop"
    => \E p \in Prefixes : cpu[c].host \in p /\ promise[p] >= cpu[c].now
DropJustified == [][DropStep]_vars

\* The collector deletes a key only when its entry has expired
\* (internal/filter/filter.go:101).
GcDeletesOnlyExpired ==
  [][\A p \in trie \ trie' : Expired(info[p].expires, now)]_vars

\* With system calls that fail finitely often, every expired entry of either
\* trie is eventually removed or renewed, so a shadow ends and a full trie
\* takes new blocks again.
ExpiredReclaimed ==
  \A p \in Prefixes :
    (p \in trie /\ Expired(info[p].expires, now))
      ~> (p \notin trie \/ ~Expired(info[p].expires, now))

=============================================================================
