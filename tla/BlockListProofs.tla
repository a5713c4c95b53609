-------------------------- MODULE BlockListProofs --------------------------
(* Proofs about BlockList, for any set of prefixes, writers and CPUs and    *)
(* any duration.                                                            *)
EXTENDS BlockList, TLAPS

(* The inductive invariant. The tries hold what the last acknowledged       *)
(* AddBlocked wrote (Recorded) until a deletion, deletions concern only keys *)
(* that were expired when they were collected and have not been written     *)
(* since (Collected), so that a block that is due is still there (Kept).    *)
Recorded == \A p \in trie : info[p].expires = promise[p]
Collected == \A p \in gc.expired : p \notin raced => Expired(promise[p], now)
Kept == \A p \in Prefixes : Due(p) => p \in trie
SweepClock == gc.now <= now
\* No call writes the expiry 0 that stands for "never".
Finite ==
  /\ \A w \in Writers : call[w].st = "put" => call[w].expires # 0
  /\ \A p \in trie : promise[p] # 0
IInv == TypeOK /\ Recorded /\ Collected /\ Kept /\ SweepClock /\ Finite


GcType == [st : {"sleep", "scan", "delete"}, fam : Families, now : Nat,
           start : SUBSET Prefixes, seen : SUBSET Prefixes, expired : SUBSET Prefixes]

LEMMA InitIInv == Init => IInv
BY BoundsAssumption, PrefixAssumption
   DEF Init, IInv, TypeOK, Recorded, Collected, Kept, SweepClock, Finite, Due, Returned,
       Verdict, NoInfo, Asleep, Info, Families

LEMMA TypeStep == TypeOK /\ [Next]_vars => TypeOK'
<1> SUFFICES ASSUME TypeOK, [Next]_vars PROVE TypeOK'
  OBVIOUS
<1> USE DEF TypeOK, Info, Families
<1>1. CASE Tick
  BY <1>1 DEF Tick
<1>2. ASSUME NEW w \in Writers, NEW cidr \in Prefixes \cup {Malformed, Mapped},
             NEW d \in Durations, AddBlocked(w, cidr, d)
      PROVE  TypeOK'
  BY <1>2, BoundsAssumption DEF AddBlocked, Expiry, Returned
<1>3. ASSUME NEW w \in Writers, PutOk(w) PROVE TypeOK'
  BY <1>3 DEF PutOk, Returned
<1>4. ASSUME NEW w \in Writers, PutError(w) PROVE TypeOK'
  BY <1>4 DEF PutError, Returned
<1>5. ASSUME NEW c \in Cpus, NEW h \in Hosts, PacketIn(c, h) PROVE TypeOK'
  BY <1>5 DEF PacketIn
<1>6. ASSUME NEW c \in Cpus, PacketDrop(c) PROVE TypeOK'
  BY <1>6 DEF PacketDrop, Verdict
<1>7. ASSUME NEW c \in Cpus, PacketPass(c) PROVE TypeOK'
  BY <1>7 DEF PacketPass, Verdict
<1>8. CASE Gc
  <2>1. AfterSweep \in GcType
    BY DEF AfterSweep, Sweep, Asleep, KeysOf, GcType
  <2>2. CASE GcTick
    BY <2>2 DEF GcTick, Sweep, KeysOf
  <2>3. CASE GcScanned
    BY <2>3 DEF GcScanned
  <2>4. CASE GcIterError
    BY <2>1, <2>4 DEF GcIterError, GcType
  <2>5. CASE GcSwept
    BY <2>1, <2>5 DEF GcSwept, GcType
  <2>6. ASSUME NEW p \in Prefixes, GcVisit(p) PROVE TypeOK'
    BY <2>6 DEF GcVisit
  <2>7. ASSUME NEW p \in Prefixes, GcDelete(p) PROVE TypeOK'
    <3>1. [info EXCEPT ![p] = NoInfo] \in [Prefixes -> Info]
      BY DEF NoInfo
    <3> QED
      BY <2>7, <3>1 DEF GcDelete
  <2>8. ASSUME NEW p \in Prefixes, GcDeleteError(p) PROVE TypeOK'
    <3>1. [gc EXCEPT !.expired = @ \ {p}] \in GcType
      BY DEF GcType
    <3> QED
      BY <2>8, <3>1, SMTT(20) DEF GcDeleteError, GcType
  <2> QED
    BY <1>8, <2>2, <2>3, <2>4, <2>5, <2>6, <2>7, <2>8 DEF Gc
<1>9. CASE UNCHANGED vars
  BY <1>9 DEF vars
<1> QED
  <2> HIDE DEF TypeOK
  <2> QED
    BY <1>1, <1>2, <1>3, <1>4, <1>5, <1>6, <1>7, <1>8, <1>9 DEF Next, Writer, Cpu

LEMMA IInvStep == IInv /\ [Next]_vars => IInv'
<1> SUFFICES ASSUME IInv, [Next]_vars PROVE IInv'
  OBVIOUS
<1>t. TypeOK /\ TypeOK'
  BY TypeStep DEF IInv
<1> USE DEF IInv, Recorded, Collected, Kept, SweepClock, Finite, Due
<1> HIDE DEF TypeOK
<1>1. CASE Tick
  \* time only turns "due" into "over"
  BY <1>1, <1>t DEF Tick, Expired, TypeOK
<1>2. ASSUME NEW w \in Writers, PutOk(w) PROVE IInv'
  <2> DEFINE p == call[w].key
  <2>1. p \in Prefixes /\ p \in trie' /\ promise'[p] = info'[p].expires
    BY <1>2, <1>t DEF PutOk, TypeOK, Info
  <2>2. \A q \in Prefixes : q # p =>
          /\ promise'[q] = promise[q] /\ info'[q] = info[q]
          /\ q \in trie' <=> q \in trie
          /\ q \in raced' <=> q \in raced
    BY <1>2, <1>t DEF PutOk, TypeOK, Info
  <2>3. gc' = gc /\ now' = now /\ promise'[p] # 0 /\ (p \in gc.expired => p \in raced')
    BY <1>2, <1>t, <2>1 DEF PutOk, TypeOK, Info
  <2>4. \A v \in Writers : call'[v].st = "put" => call'[v].expires # 0
    BY <1>2, <1>t DEF PutOk, Returned, TypeOK
  <2> QED
    BY <1>t, <2>1, <2>2, <2>3, <2>4, SMTT(20) DEF TypeOK
<1>3. ASSUME NEW c \in Cpus, PacketDrop(c) PROVE IInv'
  BY <1>3, <1>t DEF PacketDrop, TypeOK, Info
<1>4. CASE Gc
  <2>1. AfterSweep.expired = {} /\ AfterSweep.now <= now
    BY <1>t DEF AfterSweep, Sweep, Asleep, TypeOK
  <2>2. CASE GcTick
    BY <2>2, <1>t DEF GcTick, Sweep, TypeOK
  <2>3. CASE GcScanned
    BY <2>3, <1>t DEF GcScanned, TypeOK
  <2>4. CASE GcIterError
    BY <2>1, <2>4, <1>t DEF GcIterError
  <2>5. CASE GcSwept
    BY <2>1, <2>5, <1>t DEF GcSwept
  <2>6. ASSUME NEW p \in Prefixes, GcVisit(p) PROVE IInv'
    <3>1. Expired(info[p].expires, gc.now) => Expired(promise[p], now)
      BY <2>6, <1>t DEF GcVisit, KeysOf, Expired, TypeOK, Info
    <3> QED
      BY <2>6, <1>t, <3>1 DEF GcVisit, Collects, TypeOK
  <2>7. ASSUME NEW p \in Prefixes, GcDelete(p) PROVE IInv'
    <3>1. ~Due(p)
      BY <2>7 DEF GcDelete
    <3> QED
      BY <2>7, <1>t, <3>1 DEF GcDelete, TypeOK, Info
  <2>8. ASSUME NEW p \in Prefixes, GcDeleteError(p) PROVE IInv'
    BY <2>8, <1>t DEF GcDeleteError, TypeOK
  <2> QED
    BY <1>4, <2>2, <2>3, <2>4, <2>5, <2>6, <2>7, <2>8 DEF Gc
<1>5. ASSUME NEW w \in Writers, NEW cidr \in Prefixes \cup {Malformed, Mapped},
             NEW d \in Durations, AddBlocked(w, cidr, d)
      PROVE  IInv'
  <2>1. \A v \in Writers : call'[v].st = "put" => call'[v].expires # 0
    BY <1>5, <1>t, BoundsAssumption DEF AddBlocked, Expiry, Returned, TypeOK
  <2> QED
    BY <1>5, <1>t, <2>1 DEF AddBlocked, Expired
<1>6. ASSUME NEW w \in Writers, PutError(w) PROVE IInv'
  <2>1. \A v \in Writers : call'[v].st = "put" => call'[v].expires # 0
    BY <1>6, <1>t DEF PutError, Returned, TypeOK
  <2> QED
    BY <1>6, <1>t, <2>1 DEF PutError, Expired
<1>7. CASE UNCHANGED <<now, trie, info, call, gc, promise, raced>>
  BY <1>7, <1>t DEF Expired
<1> HIDE DEF IInv
<1> QED
  BY <1>1, <1>2, <1>3, <1>4, <1>5, <1>6, <1>7
     DEF Next, Writer, Cpu, PacketIn, PacketPass, vars

LEMMA IInvAlways == Spec => []IInv
BY InitIInv, IInvStep, PTL DEF Spec

(* The tries, the calls in flight and the collector keep their types.       *)
THEOREM TypeCorrect == Spec => []TypeOK
<1>1. IInv => TypeOK
  BY DEF IInv
<1> QED
  BY <1>1, IInvAlways, PTL

(* A block that AddBlocked acknowledged is in force for every address it    *)
(* covers until it expires, but for a renewal that raced the collector and  *)
(* a more specific expired entry.                                           *)
THEOREM BlockEnforced == Spec => []Enforced
<1>1. ASSUME IInv PROVE Enforced
  <2> SUFFICES ASSUME NEW p \in Prefixes, NEW h \in p, Due(p)
               PROVE  Dropped(h, now) \/ Shadowed(h, p)
    BY DEF Enforced
  <2>1. p \in trie /\ trie \subseteq Prefixes /\ h \in Hosts /\ info[p].expires = promise[p]
    BY <1>1, PrefixAssumption DEF IInv, Kept, Recorded, TypeOK
  <2>2. PICK q \in trie : h \in q /\ \A r \in trie : h \in r => q \subseteq r
    <3> DEFINE S == {r \in trie : h \in r}
    <3>1. S # {} /\ S \in SUBSET {r \in Prefixes : h \in r}
      BY <2>1
    <3>2. \A T \in SUBSET {r \in Prefixes : h \in r} :
             T # {} => \E r \in T : \A s \in T : r \subseteq s
      BY <2>1, PrefixAssumption
    <3>3. \E r \in S : \A s \in S : r \subseteq s
      <4> HIDE DEF S
      <4> QED
        BY <3>1, <3>2
    <3> QED
      BY <3>3
  <2>3. CASE Expired(info[q].expires, now)
    BY <2>1, <2>2, <2>3 DEF Shadowed, Due
  <2>4. CASE ~Expired(info[q].expires, now)
    BY <2>1, <2>2, <2>4 DEF Dropped, Longest
  <2> QED
    BY <2>3, <2>4
<1> QED
  BY <1>1, IInvAlways, PTL

(* A packet is dropped only for a block that an acknowledged AddBlocked put *)
(* on its source and that was not over when the packet came in.             *)
THEOREM DropIsJustified == Spec => DropJustified
<1>1. ASSUME IInv, [Next]_vars PROVE DropStep
  <2> SUFFICES ASSUME NEW c \in Cpus, cpu[c].st = "lookup", cpu'[c].st = "drop"
               PROVE  \E p \in Prefixes : cpu[c].host \in p /\ promise[p] >= cpu[c].now
    BY DEF DropStep
  <2>1. cpu' # cpu /\ cpu \in [Cpus -> [st : {"idle", "lookup", "drop", "pass"},
                                       host : Hosts \cup {{}}, now : Nat]]
    BY <1>1 DEF IInv, TypeOK
  <2>2. \E d \in Cpus : Cpu(d)
    BY <1>1, <2>1 DEF Next, Tick, Writer, AddBlocked, PutOk, PutError, Gc, GcTick,
       GcScanned, GcIterError, GcSwept, GcVisit, GcDelete, GcDeleteError, vars
  <2>3. PacketDrop(c)
    BY <2>1, <2>2 DEF Cpu, PacketIn, PacketDrop, PacketPass, Verdict
  <2>4. PICK p \in Prefixes :
          Longest(cpu[c].host, p) /\ ~Expired(info[p].expires, cpu[c].now)
    BY <2>3 DEF PacketDrop, Blocks
  <2>5. promise[p] = info[p].expires /\ promise[p] # 0 /\ promise[p] \in Nat /\ cpu[c].now \in Nat
    BY <1>1, <2>4 DEF IInv, Recorded, Finite, TypeOK, Longest
  <2> QED
    BY <2>4, <2>5 DEF Longest, Expired
<1> QED
  BY <1>1, IInvAlways, PTL DEF Spec, DropJustified
=============================================================================
