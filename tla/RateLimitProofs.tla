-------------------------- MODULE RateLimitProofs --------------------------
(* Proofs about RateLimit, for any sources, CPUs, steering and limits.      *)
EXTENDS RateLimit, TLAPS

-----------------------------------------------------------------------------
(* Arithmetic.                                                              *)

LEMMA NoWrap ==
  ASSUME NEW n \in Nat, n < Word
  PROVE  n % Word = n
BY RateAssumption

LEMMA WordBound ==
  ASSUME NEW n \in Int
  PROVE  n % Word \in Nat
BY RateAssumption

LEMMA NewTokensBound ==
  ASSUME NEW e \in Nat
  PROVE  /\ e \div NS_PER_TOKEN \in Nat
         /\ (e \div NS_PER_TOKEN) * NS_PER_TOKEN \in Nat
         /\ (e \div NS_PER_TOKEN) * NS_PER_TOKEN <= e
         /\ e \div NS_PER_TOKEN <= e
BY RateAssumption

-----------------------------------------------------------------------------
(* The types, and that a CPU at work handles a source it is given.          *)

Step == {"idle", "lookup", "insert", "last", "tokens", "store"}

CpuState ==
  [pc : Step, src : Sources \cup {NoSource}, now : Nat, last : Nat, new : Nat,
   old : 0 .. BURST, tokens : 0 .. BURST, todo : SUBSET {"last", "tokens"}]

TypeInv ==
  /\ now \in 0 .. MaxTime
  /\ known \subseteq Sources
  /\ last \in [Sources -> Nat]
  /\ tokens \in [Sources -> 0 .. BURST]
  /\ cpu \in [Cpus -> CpuState]
  /\ born \in [Sources -> Nat]
  /\ admitted \in [Sources -> Nat]
  /\ prev \in [Sources -> Nat]

Working(c) == cpu[c].pc # "idle"
Steered == \A c \in Cpus : Working(c) => cpu[c].src \in Steer[c]
InThePast == \A c \in Cpus : cpu[c].now <= now

Base == TypeInv /\ Steered /\ InThePast

LEMMA InitBase == Init => Base
BY RateAssumption DEF Init, Base, TypeInv, Steered, InThePast, Working, Idle, Registers, CpuState, Step

LEMMA SourceAtWork ==
  ASSUME Base, NEW c \in Cpus, Working(c)
  PROVE  cpu[c].src \in Sources
BY RateAssumption DEF Base, Steered

\* What a packet finds in its bucket is a legal amount.
LEMMA RefilledType ==
  ASSUME Base, NEW c \in Cpus, Working(c)
  PROVE  Refilled(c) \in 0 .. BURST
<1>1. /\ tokens[cpu[c].src] \in 0 .. BURST
      /\ cpu[c].new \in Nat
  BY SourceAtWork DEF Base, TypeInv, CpuState
<1>2. (tokens[cpu[c].src] + cpu[c].new) % Word \in Nat
  BY <1>1, WordBound
<1> QED BY <1>1, <1>2, RateAssumption DEF Refilled, Smaller

\* A step that only replaces the registers of one CPU keeps the others'.
LEMMA OneCpu ==
  ASSUME Base, NEW c \in Cpus, NEW r \in CpuState,
         r.pc # "idle" => r.src \in Steer[c], r.now <= now,
         cpu' = [cpu EXCEPT ![c] = r], now' = now
  PROVE  cpu' \in [Cpus -> CpuState] /\ Steered' /\ InThePast'
BY DEF Base, TypeInv, Steered, InThePast, Working

LEMMA IdleState == Idle \in CpuState /\ Idle.pc = "idle" /\ Idle.now = 0
BY RateAssumption DEF Idle, Registers, CpuState, Step

LEMMA NextBase == Base /\ [Next]_vars => Base'
<1> SUFFICES ASSUME Base, [Next]_vars PROVE Base'
  OBVIOUS
<1> USE RateAssumption
<1>0. CASE UNCHANGED vars
  BY <1>0 DEF Base, TypeInv, Steered, InThePast, Working, vars, bucket, history
<1>1. CASE Tick
  BY <1>1 DEF Base, TypeInv, Steered, InThePast, Working, Tick, bucket, history, CpuState
<1>2. ASSUME NEW c \in Cpus, NEW s \in Sources, PacketIn(c, s) PROVE Base'
  <2> DEFINE r == Registers("lookup", s, now)
  <2>1. r \in CpuState /\ r.src \in Steer[c] /\ r.now <= now
    BY <1>2 DEF Base, TypeInv, Registers, CpuState, Step, PacketIn
  <2>2. cpu' = [cpu EXCEPT ![c] = r]
    BY <1>2 DEF PacketIn
  <2> HIDE DEF r
  <2> QED
    BY <1>2, <2>1, <2>2, OneCpu DEF Base, TypeInv, PacketIn, bucket, history
<1>3. ASSUME NEW c \in Cpus, Lookup(c) PROVE Base'
  <2> DEFINE r == [cpu[c] EXCEPT !.pc = IF cpu[c].src \in known THEN "last" ELSE "insert"]
  <2>1. r \in CpuState /\ r.src \in Steer[c] /\ r.now <= now
    BY <1>3 DEF Base, TypeInv, Steered, InThePast, Working, CpuState, Step, Lookup
  <2>2. cpu' = [cpu EXCEPT ![c] = r]
    BY <1>3 DEF Lookup
  <2> QED
    BY <1>3, <2>1, <2>2, OneCpu DEF Base, TypeInv, Lookup, bucket, history
<1>4. ASSUME NEW c \in Cpus, Insert(c) PROVE Base'
  <2>1. cpu[c].src \in Sources
    BY <1>4, SourceAtWork DEF Insert, Working
  <2>2. cpu[c].now \in Nat /\ 0 <= now
    BY DEF Base, TypeInv, CpuState
  <2>3. cpu' \in [Cpus -> CpuState] /\ Steered' /\ InThePast'
    BY <1>4, <2>2, OneCpu, IdleState DEF Insert
  <2>4. known' \subseteq Sources
    BY <1>4, <2>1 DEF Insert, Base, TypeInv
  <2> QED
    BY <1>4, <2>1, <2>2, <2>3, <2>4 DEF Insert, Base, TypeInv
<1>5. ASSUME NEW c \in Cpus, InsertFails(c) \/ Refuse(c) PROVE Base'
  <2>1. cpu[c].src \in Sources
    BY <1>5, SourceAtWork DEF InsertFails, Refuse, Working
  <2>2. cpu[c].now \in Nat /\ 0 <= now
    BY DEF Base, TypeInv, CpuState
  <2>3. cpu' \in [Cpus -> CpuState] /\ Steered' /\ InThePast'
    BY <1>5, <2>2, OneCpu, IdleState DEF InsertFails, Refuse
  <2> QED
    BY <1>5, <2>1, <2>2, <2>3 DEF InsertFails, Refuse, Base, TypeInv, bucket, history
<1>6. ASSUME NEW c \in Cpus, LoadLast(c) PROVE Base'
  <2> DEFINE e == (cpu[c].now - last[cpu[c].src]) % Word
             r == [cpu[c] EXCEPT !.pc = "tokens", !.last = last[cpu[c].src],
                                 !.new = e \div NS_PER_TOKEN]
  <2>1. cpu[c].src \in Sources
    BY <1>6, SourceAtWork DEF LoadLast, Working
  <2>2. cpu[c].now \in Nat /\ last[cpu[c].src] \in Nat
    BY <2>1 DEF Base, TypeInv, CpuState
  <2>3. e \in Nat
    BY <2>2, WordBound
  <2> HIDE DEF e
  <2>6. e \div NS_PER_TOKEN \in Nat
    BY <2>3, NewTokensBound
  <2>4. r \in CpuState /\ r.src \in Steer[c] /\ r.now <= now
    BY <1>6, <2>2, <2>6, ZenonT(60) DEF Base, TypeInv, Steered, InThePast, Working, CpuState, Step, LoadLast
  <2>5. cpu' = [cpu EXCEPT ![c] = r]
    BY <1>6 DEF LoadLast, e
  <2> HIDE DEF r
  <2> QED
    BY <1>6, <2>4, <2>5, OneCpu DEF Base, TypeInv, LoadLast, bucket, history
<1>7. ASSUME NEW c \in Cpus, LoadTokens(c) PROVE Base'
  <2> DEFINE r == [cpu[c] EXCEPT !.pc = "store", !.old = tokens[cpu[c].src],
                     !.tokens = Refilled(c) - 1,
                     !.todo = {"tokens"} \cup IF cpu[c].new > 0 THEN {"last"} ELSE {}]
  <2>1. cpu[c].src \in Sources /\ Refilled(c) \in 0 .. BURST
    BY <1>7, SourceAtWork, RefilledType DEF LoadTokens, Working
  <2>2. tokens[cpu[c].src] \in 0 .. BURST /\ Refilled(c) - 1 \in 0 .. BURST
    BY <1>7, <2>1 DEF Base, TypeInv, LoadTokens
  <2>4. r \in CpuState /\ r.src \in Steer[c] /\ r.now <= now
    BY <1>7, <2>2, ZenonT(60) DEF Base, TypeInv, Steered, InThePast, Working, CpuState, Step, LoadTokens
  <2>5. cpu' = [cpu EXCEPT ![c] = r]
    BY <1>7 DEF LoadTokens
  <2> HIDE DEF r
  <2> QED
    BY <1>7, <2>4, <2>5, OneCpu DEF Base, TypeInv, LoadTokens, bucket, history
<1>8. ASSUME NEW c \in Cpus, NEW field \in {"tokens", "last"},
             cpu[c].pc = "store", Stored(c, field)
      PROVE  /\ cpu' \in [Cpus -> CpuState] /\ Steered' /\ InThePast'
             /\ now' \in 0 .. MaxTime /\ known' \subseteq Sources
             /\ born' \in [Sources -> Nat] /\ admitted' \in [Sources -> Nat]
             /\ prev' \in [Sources -> Nat]
  <2> DEFINE r == IF cpu[c].todo = {field} THEN Idle
                  ELSE [cpu[c] EXCEPT !.todo = cpu[c].todo \ {field}]
  <2>1. cpu[c].src \in Sources /\ cpu[c].now \in Nat
    BY <1>8, SourceAtWork DEF Working, Base, TypeInv, CpuState
  <2>2. /\ r \in CpuState /\ r.now <= now
        /\ r.pc # "idle" => r.src \in Steer[c]
    BY <1>8, IdleState DEF Base, TypeInv, Steered, InThePast, Working, CpuState, Step
  <2>3. cpu' = [cpu EXCEPT ![c] = r] /\ now' = now
    BY <1>8 DEF Stored
  <2>4. cpu' \in [Cpus -> CpuState] /\ Steered' /\ InThePast'
    <3> HIDE DEF r
    <3> QED BY <2>2, <2>3, OneCpu
  <2> QED
    BY <1>8, <2>1, <2>4 DEF Stored, Base, TypeInv
<1>9. ASSUME NEW c \in Cpus, StoreTokens(c) PROVE Base'
  <2>1. cpu[c].src \in Sources /\ cpu[c].tokens \in 0 .. BURST
    BY <1>9, SourceAtWork DEF StoreTokens, Working, Base, TypeInv, CpuState
  <2> QED
    BY <1>8, <1>9, <2>1 DEF StoreTokens, Spent, Base, TypeInv
<1>10. ASSUME NEW c \in Cpus, StoreLast(c) PROVE Base'
  <2>1. cpu[c].src \in Sources /\ cpu[c].last \in Nat /\ cpu[c].new \in Nat
    BY <1>10, SourceAtWork DEF StoreLast, Working, Base, TypeInv, CpuState
  <2>2. Advanced(c) \in Nat
    BY <2>1, WordBound DEF Advanced
  <2> QED
    BY <1>8, <1>10, <2>1, <2>2 DEF StoreLast, Base, TypeInv
<1> QED
  BY <1>0, <1>1, <1>2, <1>3, <1>4, <1>5, <1>6, <1>7, <1>9, <1>10 DEF Next, Cpu

\* However the CPUs interleave and whatever they overwrite of each other, no
\* bucket ever holds more than BURST tokens or fewer than none.
THEOREM BurstHolds == Spec => []BurstLimit
<1>1. Base => BurstLimit
  BY DEF Base, TypeInv, BurstLimit
<1> QED BY <1>1, InitBase, NextBase, PTL DEF Spec

-----------------------------------------------------------------------------
(* A source that reaches one CPU: what that CPU holds of its bucket.        *)

\* The entry a CPU has a pointer to stays in the map.
Kept == \A c \in Cpus : cpu[c].pc \in {"last", "tokens", "store"} => cpu[c].src \in known

\* No bucket of such a source is younger than the clock.
Past == \A s \in Pinned : last[s] <= now

\* What was loaded is still what the bucket holds, but for the stores made.
LoadedIsCurrent(c) ==
  LET s == cpu[c].src
      r == cpu[c] IN
  s \in Pinned =>
    /\ r.pc \in {"lookup", "insert", "last", "tokens"} => last[s] <= r.now
    /\ r.pc = "tokens" =>
         r.last = last[s] /\ r.new = Promise!NewTokens(r.now - r.last)
    /\ r.pc = "store" =>
         /\ r.last <= r.now
         /\ r.new = Promise!NewTokens(r.now - r.last)
         /\ Promise!Refilled(r.old, r.new) > 0
         /\ r.tokens = Promise!Refilled(r.old, r.new) - 1
         /\ last[s] = IF "last" \in r.todo THEN r.last ELSE r.last + r.new * NS_PER_TOKEN
         /\ tokens[s] = IF "tokens" \in r.todo THEN r.old ELSE r.tokens
Current == \A c \in Cpus : LoadedIsCurrent(c)

IInv == Base /\ Kept /\ Past /\ Current

LEMMA InitIInv == Init => IInv
BY InitBase, RateAssumption
   DEF Init, IInv, Kept, Past, Current, LoadedIsCurrent, Idle, Registers, Pinned

\* Two CPUs never work for the same pinned source.
LEMMA Apart ==
  ASSUME Base, NEW c \in Cpus, NEW d \in Cpus, c # d, Working(c), Working(d),
         cpu[d].src \in Pinned
  PROVE  cpu[c].src # cpu[d].src
BY DEF Base, Steered, Pinned

\* What one CPU does to the bucket it works on leaves the others' view current.
LEMMA OthersCurrent ==
  ASSUME Base, Current, NEW c \in Cpus,
         \A d \in Cpus \ {c} : cpu'[d] = cpu[d],
         \A t \in Sources : \/ Working(c) /\ t = cpu[c].src
                            \/ last'[t] = last[t] /\ tokens'[t] = tokens[t]
  PROVE  \A d \in Cpus \ {c} : LoadedIsCurrent(d)'
<1> SUFFICES ASSUME NEW d \in Cpus \ {c} PROVE LoadedIsCurrent(d)'
  OBVIOUS
<1>1. LoadedIsCurrent(d) /\ cpu'[d] = cpu[d]
  BY DEF Current
<1>2. CASE ~ Working(d)
  BY <1>1, <1>2 DEF Working, LoadedIsCurrent
<1>3. CASE Working(d) /\ cpu[d].src \in Pinned
  <2>1. cpu[d].src \in Sources /\ (Working(c) => cpu[d].src # cpu[c].src)
    BY <1>3, Apart, SourceAtWork
  <2>2. last'[cpu[d].src] = last[cpu[d].src] /\ tokens'[cpu[d].src] = tokens[cpu[d].src]
    BY <2>1
  <2> QED BY <1>1, <2>2 DEF LoadedIsCurrent
<1>4. CASE cpu[d].src \notin Pinned
  BY <1>1, <1>4 DEF LoadedIsCurrent
<1> QED BY <1>2, <1>3, <1>4

LEMMA NextKept == Base /\ Kept /\ [Next]_vars => Kept'
<1> SUFFICES ASSUME Base, Kept, [Next]_vars PROVE Kept'
  OBVIOUS
<1> USE DEF Kept
<1>0. CASE UNCHANGED vars
  BY <1>0 DEF vars, bucket
<1>1. CASE Tick
  BY <1>1 DEF Tick, bucket
<1>2. ASSUME NEW c \in Cpus, NEW s \in Sources, PacketIn(c, s) PROVE Kept'
  BY <1>2 DEF PacketIn, bucket, Registers, Base, TypeInv
<1>3. ASSUME NEW c \in Cpus, Lookup(c) PROVE Kept'
  BY <1>3 DEF Lookup, bucket, Base, TypeInv, CpuState
<1>4. ASSUME NEW c \in Cpus, Insert(c) PROVE Kept'
  <2> SUFFICES ASSUME NEW d \in Cpus, cpu'[d].pc \in {"last", "tokens", "store"}
               PROVE  cpu'[d].src \in known'
    OBVIOUS
  <2>1. d # c /\ cpu'[d] = cpu[d]
    BY <1>4, IdleState DEF Insert, Base, TypeInv
  <2>2. cpu[d].src \in known
    BY <2>1
  <2>3. cpu[d].src \notin Evictable
    BY <2>1 DEF Evictable
  <2> QED BY <1>4, <2>1, <2>2, <2>3 DEF Insert
<1>5. ASSUME NEW c \in Cpus, InsertFails(c) \/ Refuse(c) PROVE Kept'
  BY <1>5, IdleState DEF InsertFails, Refuse, bucket, Base, TypeInv
<1>6. ASSUME NEW c \in Cpus, LoadLast(c) \/ LoadTokens(c) PROVE Kept'
  BY <1>6 DEF LoadLast, LoadTokens, bucket, Base, TypeInv, CpuState
<1>7. ASSUME NEW c \in Cpus, StoreTokens(c) \/ StoreLast(c) PROVE Kept'
  BY <1>7, IdleState DEF StoreTokens, StoreLast, Stored, Base, TypeInv, CpuState
<1> QED
  BY <1>0, <1>1, <1>2, <1>3, <1>4, <1>5, <1>6, <1>7 DEF Next, Cpu

\* The clock of the packet fits a word, so nothing that is computed from a
\* current bucket wraps.
LEMMA LoadedSmall ==
  ASSUME IInv, NEW c \in Cpus, cpu[c].pc = "store", cpu[c].src \in Pinned
  PROVE  /\ Advanced(c) = cpu[c].last + cpu[c].new * NS_PER_TOKEN
         /\ Advanced(c) \in Nat
         /\ Advanced(c) <= cpu[c].now
<1> DEFINE e == cpu[c].now - cpu[c].last
           n == cpu[c].last + cpu[c].new * NS_PER_TOKEN
<1>1. /\ cpu[c].now \in Nat /\ cpu[c].last \in Nat /\ cpu[c].now <= MaxTime
  BY RateAssumption DEF IInv, Base, TypeInv, CpuState, InThePast
<1>2. cpu[c].last <= cpu[c].now /\ cpu[c].new = e \div NS_PER_TOKEN
  BY DEF IInv, Current, LoadedIsCurrent, Promise!NewTokens
<1>3. e \in Nat
  BY <1>1, <1>2
<1>4. cpu[c].new * NS_PER_TOKEN \in Nat /\ cpu[c].new * NS_PER_TOKEN <= e
  <2> HIDE DEF e
  <2> QED BY <1>2, <1>3, NewTokensBound
<1>5. n \in Nat /\ n <= cpu[c].now
  BY <1>1, <1>4
<1>6. n < Word
  BY <1>1, <1>5, RateAssumption
<1> QED
  <2> HIDE DEF n
  <2>1. n % Word = n BY <1>5, <1>6, NoWrap
  <2> QED BY <2>1, <1>5 DEF n, Advanced

LEMMA NextPast == IInv /\ [Next]_vars => Past'
<1> SUFFICES ASSUME IInv, [Next]_vars PROVE Past'
  OBVIOUS
<1> USE RateAssumption DEF Past
<1>1. \A s \in Pinned : s \in Sources /\ last[s] <= now /\ last[s] \in Nat /\ now \in Nat
  BY DEF Pinned, IInv, Base, TypeInv
<1>2. CASE UNCHANGED last /\ now' \in {now, now + 1}
  BY <1>1, <1>2
<1>3. ASSUME NEW c \in Cpus, Insert(c) PROVE Past'
  BY <1>1, <1>3 DEF Insert, IInv, Base, InThePast, TypeInv
<1>4. ASSUME NEW c \in Cpus, StoreLast(c) PROVE Past'
  <2>1. cpu[c].now <= now /\ cpu[c].now \in Nat
    BY DEF IInv, Base, InThePast, TypeInv, CpuState
  <2>2. cpu[c].src \in Pinned => Advanced(c) \in Nat /\ Advanced(c) <= cpu[c].now
    BY <1>4, LoadedSmall DEF StoreLast
  <2> QED BY <1>1, <1>4, <2>1, <2>2 DEF StoreLast, Stored, IInv, Base, TypeInv
<1> QED
  BY <1>2, <1>3, <1>4
  DEF Next, Cpu, vars, bucket, history, Tick, PacketIn, Lookup, InsertFails, LoadLast,
      LoadTokens, Refuse, StoreTokens, Stored

\* The tokens a packet finds are those of the promise: neither sum wraps.
LEMMA FoundTokens ==
  ASSUME IInv, NEW c \in Cpus, cpu[c].pc = "tokens", cpu[c].src \in Pinned
  PROVE  /\ cpu[c].last = last[cpu[c].src]
         /\ cpu[c].last <= cpu[c].now
         /\ cpu[c].new = Promise!NewTokens(cpu[c].now - cpu[c].last)
         /\ Refilled(c) = Promise!Refilled(tokens[cpu[c].src], cpu[c].new)
<1> DEFINE e == cpu[c].now - cpu[c].last
<1>1. /\ cpu[c].last = last[cpu[c].src]
      /\ cpu[c].last <= cpu[c].now
      /\ cpu[c].new = e \div NS_PER_TOKEN
  BY DEF IInv, Current, LoadedIsCurrent, Promise!NewTokens
<1>2. /\ cpu[c].now \in Nat /\ cpu[c].last \in Nat /\ cpu[c].now <= MaxTime
      /\ tokens[cpu[c].src] \in 0 .. BURST
  BY RateAssumption DEF IInv, Base, TypeInv, CpuState, InThePast, Pinned
<1>3. e \in Nat /\ e <= MaxTime
  BY <1>1, <1>2, RateAssumption
<1>4. cpu[c].new \in Nat /\ cpu[c].new <= e
  <2> HIDE DEF e
  <2> QED BY <1>1, <1>3, NewTokensBound
<1>5. /\ tokens[cpu[c].src] + cpu[c].new \in Nat
      /\ tokens[cpu[c].src] + cpu[c].new < Word
  <2> HIDE DEF e
  <2> QED BY <1>2, <1>3, <1>4, RateAssumption
<1>6. (tokens[cpu[c].src] + cpu[c].new) % Word = tokens[cpu[c].src] + cpu[c].new
  BY <1>5, NoWrap
<1> QED
  BY <1>1, <1>6 DEF Refilled, Smaller, Promise!Refilled, Promise!Smaller, Promise!NewTokens

LEMMA NextCurrent == IInv /\ [Next]_vars => Current'
<1> SUFFICES ASSUME IInv, [Next]_vars PROVE Current'
  OBVIOUS
<1> USE RateAssumption
<1>a. Base /\ Current /\ TypeInv
  BY DEF IInv, Base
<1>b. \A c \in Cpus : cpu[c] \in CpuState /\ LoadedIsCurrent(c)
  BY <1>a DEF TypeInv, Current
<1>c. ASSUME NEW c \in Cpus, LoadedIsCurrent(c)', \A d \in Cpus \ {c} : LoadedIsCurrent(d)'
      PROVE  Current'
  BY <1>c DEF Current
<1>0. CASE UNCHANGED <<cpu, last, tokens>>
  BY <1>0, <1>a DEF Current, LoadedIsCurrent
<1>2. ASSUME NEW c \in Cpus, NEW s \in Sources, PacketIn(c, s) PROVE Current'
  <2>1. cpu' = [cpu EXCEPT ![c] = Registers("lookup", s, now)] /\ UNCHANGED <<last, tokens>>
    BY <1>2 DEF PacketIn, bucket
  <2>2. LoadedIsCurrent(c)'
    BY <2>1, <1>a DEF LoadedIsCurrent, Registers, TypeInv, IInv, Past
  <2>3. \A d \in Cpus \ {c} : LoadedIsCurrent(d)'
    BY <2>1, <1>a, OthersCurrent DEF TypeInv
  <2> QED BY <2>2, <2>3, <1>c
<1>3. ASSUME NEW c \in Cpus, Lookup(c) PROVE Current'
  <2>1. /\ cpu' = [cpu EXCEPT ![c] = cpu'[c]] /\ UNCHANGED <<last, tokens>>
        /\ cpu'[c].src = cpu[c].src /\ cpu'[c].now = cpu[c].now
        /\ cpu'[c].pc \in {"last", "insert"}
    BY <1>3, <1>a DEF Lookup, bucket, TypeInv, CpuState
  <2>2. LoadedIsCurrent(c)'
    BY <2>1, <1>3, <1>b DEF LoadedIsCurrent, Lookup
  <2>3. \A d \in Cpus \ {c} : LoadedIsCurrent(d)'
    BY <2>1, <1>a, OthersCurrent DEF TypeInv
  <2> QED BY <2>2, <2>3, <1>c
<1>4. ASSUME NEW c \in Cpus, Insert(c) \/ InsertFails(c) \/ Refuse(c) PROVE Current'
  <2>1. Working(c) /\ cpu'[c].pc = "idle" /\ \A d \in Cpus \ {c} : cpu'[d] = cpu[d]
    BY <1>4, <1>a, IdleState DEF Insert, InsertFails, Refuse, TypeInv, Working
  <2>2. \A t \in Sources : t = cpu[c].src \/ (last'[t] = last[t] /\ tokens'[t] = tokens[t])
    BY <1>4, <1>a DEF Insert, InsertFails, Refuse, bucket, TypeInv
  <2>3. \A d \in Cpus \ {c} : LoadedIsCurrent(d)'
    BY <2>1, <2>2, <1>a, OthersCurrent
  <2> QED BY <2>1, <2>3, <1>c DEF LoadedIsCurrent
<1>5. ASSUME NEW c \in Cpus, LoadLast(c) PROVE Current'
  <2> DEFINE s == cpu[c].src
             e == cpu[c].now - last[s]
  <2>1. /\ \A d \in Cpus \ {c} : cpu'[d] = cpu[d]
        /\ UNCHANGED <<last, tokens>>
        /\ cpu'[c].src = s /\ cpu'[c].now = cpu[c].now /\ cpu'[c].pc = "tokens"
        /\ cpu'[c].last = last[s] /\ cpu'[c].new = (e % Word) \div NS_PER_TOKEN
    BY <1>5, <1>a DEF LoadLast, bucket, TypeInv, CpuState
  <2>2. ASSUME s \in Pinned
        PROVE  last[s] <= cpu[c].now /\ e % Word = e
    <3>1. last[s] <= cpu[c].now
      BY <1>5, <1>b, <2>2 DEF LoadedIsCurrent, LoadLast
    <3>2. cpu[c].now \in Nat /\ last[s] \in Nat /\ cpu[c].now <= MaxTime
      BY <2>2 DEF IInv, Base, TypeInv, CpuState, InThePast, Pinned
    <3>3. e \in Nat /\ e < Word
      BY <3>1, <3>2
    <3>4. e % Word = e
      <4> HIDE DEF e
      <4> QED BY <3>3, NoWrap
    <3> QED BY <3>1, <3>4
  <2>3. LoadedIsCurrent(c)'
    BY <2>1, <2>2 DEF LoadedIsCurrent, Promise!NewTokens
  <2>4. \A d \in Cpus \ {c} : LoadedIsCurrent(d)'
    BY <2>1, <1>a, OthersCurrent
  <2> QED BY <2>3, <2>4, <1>c
<1>6. ASSUME NEW c \in Cpus, LoadTokens(c) PROVE Current'
  <2> DEFINE s == cpu[c].src
  <2>1. /\ \A d \in Cpus \ {c} : cpu'[d] = cpu[d]
        /\ UNCHANGED <<last, tokens>>
        /\ cpu'[c].src = s /\ cpu'[c].now = cpu[c].now /\ cpu'[c].pc = "store"
        /\ cpu'[c].last = cpu[c].last /\ cpu'[c].new = cpu[c].new
        /\ cpu'[c].old = tokens[s] /\ cpu'[c].tokens = Refilled(c) - 1 /\ Refilled(c) > 0
        /\ cpu'[c].todo = {"tokens"} \cup IF cpu[c].new > 0 THEN {"last"} ELSE {}
    BY <1>6, <1>a DEF LoadTokens, bucket, TypeInv, CpuState
  <2>2. cpu[c].new \in Nat /\ cpu[c].last \in Nat
    BY <1>b DEF CpuState
  <2>3. "last" \notin cpu'[c].todo => cpu[c].last + cpu[c].new * NS_PER_TOKEN = cpu[c].last
    <3> SUFFICES ASSUME "last" \notin cpu'[c].todo
                 PROVE  cpu[c].last + cpu[c].new * NS_PER_TOKEN = cpu[c].last
      OBVIOUS
    <3>1. cpu[c].new = 0 BY <2>1, <2>2
    <3> QED BY <3>1, <2>2
  <2>4. LoadedIsCurrent(c)'
    BY <2>1, <2>3, <1>6, FoundTokens DEF LoadedIsCurrent, LoadTokens
  <2>5. \A d \in Cpus \ {c} : LoadedIsCurrent(d)'
    BY <2>1, <1>a, OthersCurrent
  <2> QED BY <2>4, <2>5, <1>c
<1>7. ASSUME NEW c \in Cpus, NEW f \in {"tokens", "last"}, Stored(c, f),
             f = "tokens" => tokens' = [tokens EXCEPT ![cpu[c].src] = cpu[c].tokens] /\ last' = last,
             f = "last" => last' = [last EXCEPT ![cpu[c].src] = Advanced(c)] /\ tokens' = tokens,
             cpu[c].pc = "store", f \in cpu[c].todo
      PROVE  Current'
  <2> DEFINE s == cpu[c].src
  <2>0. Working(c) /\ s \in Sources
    BY <1>7, <1>a, SourceAtWork DEF Working
  <2>1. /\ \A d \in Cpus \ {c} : cpu'[d] = cpu[d]
        /\ \A t \in Sources : t = s \/ (last'[t] = last[t] /\ tokens'[t] = tokens[t])
    BY <1>7, <1>a DEF Stored, TypeInv
  <2>2. \A d \in Cpus \ {c} : LoadedIsCurrent(d)'
    BY <2>0, <2>1, <1>a, OthersCurrent
  <2>3. CASE cpu[c].todo = {f}
    <3>1. cpu'[c].pc = "idle"
      BY <1>7, <2>3, <1>a, IdleState DEF Stored, TypeInv
    <3> QED BY <3>1, <2>2, <1>c DEF LoadedIsCurrent
  <2>4. CASE cpu[c].todo # {f}
    <3>1. cpu'[c] = [cpu[c] EXCEPT !.todo = cpu[c].todo \ {f}]
      BY <1>7, <2>4, <1>a DEF Stored, TypeInv
    <3>2. /\ cpu'[c].src = s /\ cpu'[c].now = cpu[c].now /\ cpu'[c].pc = "store"
          /\ cpu'[c].last = cpu[c].last /\ cpu'[c].new = cpu[c].new
          /\ cpu'[c].old = cpu[c].old /\ cpu'[c].tokens = cpu[c].tokens
          /\ cpu'[c].todo = cpu[c].todo \ {f}
      BY <1>7, <3>1, <1>b DEF CpuState
    <3>3. s \in Pinned => Advanced(c) = cpu[c].last + cpu[c].new * NS_PER_TOKEN
      BY <1>7, LoadedSmall
    <3>4. /\ last'[s] = IF f = "last" THEN Advanced(c) ELSE last[s]
          /\ tokens'[s] = IF f = "tokens" THEN cpu[c].tokens ELSE tokens[s]
      BY <1>7, <1>a, <2>0 DEF TypeInv
    <3>5. LoadedIsCurrent(c)'
      BY <1>7, <1>b, <3>2, <3>3, <3>4 DEF LoadedIsCurrent
    <3> QED BY <3>5, <2>2, <1>c
  <2> QED BY <2>3, <2>4
<1>8. ASSUME NEW c \in Cpus, StoreTokens(c) \/ StoreLast(c) PROVE Current'
  BY <1>7, <1>8 DEF StoreTokens, StoreLast, Spent
<1> QED
  BY <1>0, <1>2, <1>3, <1>4, <1>5, <1>6, <1>8 DEF Next, Cpu, Tick, bucket, vars

LEMMA NextIInv == IInv /\ [Next]_vars => IInv'
BY NextBase, NextKept, NextPast, NextCurrent DEF IInv

-----------------------------------------------------------------------------
(* The refinement.                                                          *)

\* At most one CPU is between its stores to the bucket of a pinned source.
LEMMA OneStoring ==
  ASSUME IInv, NEW c \in Cpus, NEW s \in Pinned, cpu[c].src = s, Working(c)
  PROVE  /\ cpu[c].pc = "store" =>
              PromisedLast[s] = cpu[c].last /\ PromisedTokens[s] = cpu[c].old
         /\ cpu[c].pc # "store" =>
              PromisedLast[s] = last[s] /\ PromisedTokens[s] = tokens[s]
<1>1. Storing(s) \subseteq {c}
  BY Apart DEF Storing, Working, IInv
<1>2. CASE cpu[c].pc = "store"
  <2>1. Storing(s) = {c}
    BY <1>1, <1>2 DEF Storing
  <2>2. Loaded(s) = cpu[c]
    BY <2>1 DEF Loaded
  <2> QED BY <1>2, <2>1, <2>2 DEF PromisedLast, PromisedTokens
<1>3. CASE cpu[c].pc # "store"
  <2>1. Storing(s) = {}
    BY <1>1, <1>3 DEF Storing
  <2> QED BY <1>3, <2>1 DEF PromisedLast, PromisedTokens
<1> QED BY <1>2, <1>3

\* A CPU that is done with the bucket of a pinned source leaves nothing loaded.
LEMMA LastStored ==
  ASSUME IInv, NEW c \in Cpus, NEW s \in Pinned, cpu[c].src = s, Working(c),
         cpu'[c].pc # "store", \A d \in Cpus \ {c} : cpu'[d] = cpu[d]
  PROVE  PromisedLast'[s] = last'[s] /\ PromisedTokens'[s] = tokens'[s]
<1>1. \A d \in Cpus \ {c} : ~ (cpu'[d].pc = "store" /\ cpu'[d].src = s)
  BY Apart DEF Working, IInv
<1>2. Storing(s)' = {}
  BY <1>1 DEF Storing
<1> QED BY <1>2 DEF PromisedLast, PromisedTokens

\* What a CPU does not store to, and does not start or stop storing to, the
\* promise sees unchanged.
LEMMA SameBucket ==
  ASSUME NEW c \in Cpus, NEW s \in Pinned,
         \A d \in Cpus \ {c} : cpu'[d] = cpu[d],
         c \notin Storing(s), c \notin Storing(s)',
         last'[s] = last[s], tokens'[s] = tokens[s]
  PROVE  PromisedLast'[s] = PromisedLast[s] /\ PromisedTokens'[s] = PromisedTokens[s]
<1>1. Storing(s)' = Storing(s)
  BY DEF Storing
<1>2. CASE Storing(s) = {}
  BY <1>1, <1>2 DEF PromisedLast, PromisedTokens
<1>3. CASE Storing(s) # {}
  <2> DEFINE d == CHOOSE x \in Storing(s) : TRUE
  <2>1. d \in Cpus \ {c}
    BY <1>3 DEF Storing
  <2>2. Loaded(s) = cpu[d] /\ Loaded(s)' = cpu'[d]
    BY <1>1 DEF Loaded
  <2>3. Loaded(s)' = Loaded(s)
    BY <2>1, <2>2
  <2> QED BY <1>1, <1>3, <2>3 DEF PromisedLast, PromisedTokens
<1> QED BY <1>2, <1>3

LEMMA Domains ==
  /\ DOMAIN PromisedLast = Pinned /\ DOMAIN PromisedTokens = Pinned
  /\ PromisedLast = [s \in Pinned |-> PromisedLast[s]]
  /\ PromisedTokens = [s \in Pinned |-> PromisedTokens[s]]
BY DEF PromisedLast, PromisedTokens

LEMMA DomainsNext ==
  /\ PromisedLast' = [s \in Pinned |-> PromisedLast'[s]]
  /\ PromisedTokens' = [s \in Pinned |-> PromisedTokens'[s]]
BY DEF PromisedLast, PromisedTokens

LEMMA InitPromise == Init => Promise!Init
<1> SUFFICES ASSUME Init PROVE Promise!Init
  OBVIOUS
<1>1. \A s \in Pinned : s \in Sources /\ Storing(s) = {}
  BY DEF Init, Idle, Registers, Storing, Pinned
<1>2. /\ PromisedLast = [s \in Pinned |-> 0]
      /\ PromisedTokens = [s \in Pinned |-> 0]
  BY <1>1 DEF Init, PromisedLast, PromisedTokens
<1>3. /\ [s \in Pinned |-> born[s]] = [s \in Pinned |-> 0]
      /\ [s \in Pinned |-> admitted[s]] = [s \in Pinned |-> 0]
      /\ [s \in Pinned |-> prev[s]] = [s \in Pinned |-> 0]
  BY <1>1 DEF Init
<1> QED BY <1>2, <1>3 DEF Init, Promise!Init

\* A step that decides no packet of a pinned source is invisible.
LEMMA Invisible ==
  ASSUME now' = now, known' = known, UNCHANGED history,
         PromisedLast' = PromisedLast, PromisedTokens' = PromisedTokens
  PROVE  UNCHANGED Promise!vars
BY DEF history, Promise!vars

\* What the step of one CPU leaves of the other buckets.
LEMMA OtherBuckets ==
  ASSUME IInv, NEW c \in Cpus, NEW s \in Sources, \A d \in Cpus \ {c} : cpu'[d] = cpu[d],
         cpu[c].pc = "store" => cpu[c].src = s,
         cpu'[c].pc = "store" => cpu'[c].src = s,
         \A t \in Sources \ {s} : last'[t] = last[t] /\ tokens'[t] = tokens[t]
  PROVE  \A t \in Pinned \ {s} :
           PromisedLast'[t] = PromisedLast[t] /\ PromisedTokens'[t] = PromisedTokens[t]
<1> SUFFICES ASSUME NEW t \in Pinned \ {s}
             PROVE  PromisedLast'[t] = PromisedLast[t] /\ PromisedTokens'[t] = PromisedTokens[t]
  OBVIOUS
<1>1. c \notin Storing(t) /\ c \notin Storing(t)'
  BY DEF Storing
<1>2. last'[t] = last[t] /\ tokens'[t] = tokens[t]
  BY DEF Pinned
<1> QED BY <1>1, <1>2, SameBucket

LEMMA Unseen ==
  ASSUME IInv, NEW c \in Cpus, NEW s \in Sources,
         \/ PacketIn(c, s)
         \/ Lookup(c) \/ InsertFails(c) \/ LoadLast(c)
  PROVE  UNCHANGED Promise!vars
<1>1. TypeInv
  BY DEF IInv, Base
<1>2. /\ UNCHANGED <<now, known, last, tokens, history>>
      /\ \A d \in Cpus \ {c} : cpu'[d] = cpu[d]
      /\ cpu[c].pc # "store" /\ cpu'[c].pc # "store"
  BY <1>1, IdleState
     DEF TypeInv, CpuState, PacketIn, Lookup, InsertFails, LoadLast, bucket, Registers
<1>3. \A t \in Pinned : PromisedLast'[t] = PromisedLast[t] /\ PromisedTokens'[t] = PromisedTokens[t]
  <2> SUFFICES ASSUME NEW t \in Pinned
               PROVE  PromisedLast'[t] = PromisedLast[t] /\ PromisedTokens'[t] = PromisedTokens[t]
    OBVIOUS
  <2>1. c \notin Storing(t) /\ c \notin Storing(t)'
    BY <1>2 DEF Storing
  <2> QED BY <1>2, <2>1, SameBucket
<1>4. PromisedLast' = PromisedLast /\ PromisedTokens' = PromisedTokens
  BY <1>3, Domains, DomainsNext
<1> QED BY <1>2, <1>4, Invisible

\* Between its loads and its last store a CPU shows what it loaded.
LEMMA StillStoring ==
  ASSUME IInv, NEW c \in Cpus, NEW s \in Pinned, cpu[c].src = s, Working(c),
         cpu'[c].pc = "store", cpu'[c].src = s, \A d \in Cpus \ {c} : cpu'[d] = cpu[d]
  PROVE  PromisedLast'[s] = cpu'[c].last /\ PromisedTokens'[s] = cpu'[c].old
<1>1. \A d \in Cpus \ {c} : ~ (cpu'[d].pc = "store" /\ cpu'[d].src = s)
  BY Apart DEF Working, IInv
<1>2. Storing(s)' = {c}
  BY <1>1 DEF Storing
<1>3. Loaded(s)' = cpu'[c]
  BY <1>2 DEF Loaded
<1> QED BY <1>2, <1>3 DEF PromisedLast, PromisedTokens

LEMMA UnseenLoad ==
  ASSUME IInv, NEW c \in Cpus, LoadTokens(c)
  PROVE  UNCHANGED Promise!vars
<1> DEFINE s == cpu[c].src
<1>1. TypeInv /\ s \in Sources /\ Working(c)
  BY SourceAtWork DEF IInv, Base, LoadTokens, Working
<1>2. /\ UNCHANGED <<now, known, last, tokens, history>>
      /\ \A d \in Cpus \ {c} : cpu'[d] = cpu[d]
      /\ cpu[c].pc = "tokens" /\ cpu'[c].pc = "store" /\ cpu'[c].src = s
      /\ cpu'[c].last = cpu[c].last /\ cpu'[c].old = tokens[s]
  BY <1>1 DEF TypeInv, CpuState, LoadTokens, bucket
<1>3. \A t \in Pinned \ {s} : PromisedLast'[t] = PromisedLast[t] /\ PromisedTokens'[t] = PromisedTokens[t]
  BY <1>1, <1>2, OtherBuckets
<1>4. s \in Pinned => PromisedLast'[s] = PromisedLast[s] /\ PromisedTokens'[s] = PromisedTokens[s]
  BY <1>1, <1>2, OneStoring, StillStoring, FoundTokens
<1>5. PromisedLast' = PromisedLast /\ PromisedTokens' = PromisedTokens
  BY <1>3, <1>4, Domains, DomainsNext
<1> QED BY <1>2, <1>5, Invisible

LEMMA SeenInsert ==
  ASSUME IInv, NEW c \in Cpus, Insert(c)
  PROVE  Promise!Next
<1> DEFINE s == cpu[c].src
           t == cpu[c].now
<1>1. TypeInv /\ s \in Sources /\ Working(c) /\ t \in 0 .. now
  BY SourceAtWork, RateAssumption DEF IInv, Base, Insert, Working, TypeInv, CpuState, InThePast
<1>2. /\ \A d \in Cpus \ {c} : cpu'[d] = cpu[d]
      /\ cpu[c].pc = "insert" /\ cpu'[c].pc = "idle" /\ now' = now
      /\ \A x \in Sources \ {s} : last'[x] = last[x] /\ tokens'[x] = tokens[x]
      /\ last'[s] = t /\ tokens'[s] = BURST - 1
  BY <1>1, IdleState DEF TypeInv, Insert
<1>3. \A x \in Pinned \ {s} : PromisedLast'[x] = PromisedLast[x] /\ PromisedTokens'[x] = PromisedTokens[x]
  BY <1>1, <1>2, OtherBuckets
<1>4. PICK F \in SUBSET known : s \notin known /\ known' = (known \ F) \cup {s}
  <2>1. CASE known' = known \cup {s}
    <3>1. known' = (known \ {}) \cup {s} BY <2>1
    <3> QED BY <3>1 DEF Insert
  <2>2. CASE \E v \in Evictable : known' = (known \ {v}) \cup {s}
    BY <2>2 DEF Evictable, Insert
  <2> QED BY <2>1, <2>2 DEF Insert
<1> DEFINE G == F \cap Pinned
<1>5. G \in SUBSET (known \cap Pinned)
  OBVIOUS
<1>6. CASE s \in Pinned
  <2>1. /\ s \notin known \cap Pinned
        /\ (known \cap Pinned)' = ((known \cap Pinned) \ G) \cup {s}
    BY <1>4, <1>6 DEF Pinned
  <2>2. PromisedLast'[s] = t /\ PromisedTokens'[s] = BURST - 1
    BY <1>1, <1>2, <1>6, LastStored
  <2>3. /\ PromisedLast' = [PromisedLast EXCEPT ![s] = t]
        /\ PromisedTokens' = [PromisedTokens EXCEPT ![s] = BURST - 1]
    BY <1>3, <2>2, Domains, DomainsNext
  <2>4. /\ [x \in Pinned |-> born[x]]' = [[x \in Pinned |-> born[x]] EXCEPT ![s] = t]
        /\ [x \in Pinned |-> admitted[x]]' = [[x \in Pinned |-> admitted[x]] EXCEPT ![s] = 1]
        /\ [x \in Pinned |-> prev[x]]' = [[x \in Pinned |-> prev[x]] EXCEPT ![s] = t]
    BY <1>1, <1>6 DEF Insert, TypeInv, Pinned
  <2>5. Promise!FirstPacket(s, t, G)
    BY <1>2, <2>1, <2>3, <2>4 DEF Promise!FirstPacket
  <2> QED BY <1>1, <1>5, <1>6, <2>5 DEF Promise!Next
<1>7. CASE s \notin Pinned
  <2>1. (known \cap Pinned)' = (known \cap Pinned) \ G
    BY <1>4, <1>7 DEF Pinned
  <2>2. PromisedLast' = PromisedLast /\ PromisedTokens' = PromisedTokens
    BY <1>3, <1>7, Domains, DomainsNext
  <2>3. /\ [x \in Pinned |-> born[x]]' = [x \in Pinned |-> born[x]]
        /\ [x \in Pinned |-> admitted[x]]' = [x \in Pinned |-> admitted[x]]
        /\ [x \in Pinned |-> prev[x]]' = [x \in Pinned |-> prev[x]]
    BY <1>1, <1>7 DEF Insert, TypeInv, Pinned
  <2>4. Promise!Forget(G)
    BY <1>2, <2>1, <2>2, <2>3 DEF Promise!Forget
  <2> QED BY <1>5, <2>4 DEF Promise!Next
<1> QED BY <1>6, <1>7

LEMMA SeenRefuse ==
  ASSUME IInv, NEW c \in Cpus, Refuse(c)
  PROVE  [Promise!Next]_(Promise!vars)
<1> DEFINE s == cpu[c].src
           t == cpu[c].now
<1>1. TypeInv /\ s \in Sources /\ Working(c) /\ t \in 0 .. now
  BY SourceAtWork, RateAssumption DEF IInv, Base, Refuse, Working, TypeInv, CpuState, InThePast
<1>2. /\ \A d \in Cpus \ {c} : cpu'[d] = cpu[d]
      /\ cpu[c].pc = "tokens" /\ cpu'[c].pc = "idle"
      /\ UNCHANGED <<now, known, last, tokens, born, admitted>>
  BY <1>1, IdleState DEF TypeInv, Refuse, bucket
<1>3. \A x \in Pinned \ {s} : PromisedLast'[x] = PromisedLast[x] /\ PromisedTokens'[x] = PromisedTokens[x]
  BY <1>1, <1>2, OtherBuckets
<1>4. s \in Pinned => /\ PromisedLast[s] = last[s] /\ PromisedTokens[s] = tokens[s]
                     /\ PromisedLast'[s] = last[s] /\ PromisedTokens'[s] = tokens[s]
  BY <1>1, <1>2, OneStoring, LastStored
<1>5. PromisedLast' = PromisedLast /\ PromisedTokens' = PromisedTokens
  BY <1>3, <1>4, Domains, DomainsNext
<1>6. CASE s \in Pinned
  <2>1. /\ cpu[c].last = last[s] /\ last[s] <= t
        /\ cpu[c].new = Promise!NewTokens(t - last[s])
        /\ Promise!Refilled(tokens[s], cpu[c].new) = 0
    BY <1>2, <1>6, FoundTokens DEF Refuse
  <2>2. tokens[s] \in Nat /\ cpu[c].new \in Nat
    BY <1>1, RateAssumption DEF TypeInv, CpuState
  <2>3. cpu[c].new = 0 /\ tokens[s] = 0
    BY <2>1, <2>2, RateAssumption DEF Promise!Refilled, Promise!Smaller
  <2>4. [x \in Pinned |-> prev[x]]' = [[x \in Pinned |-> prev[x]] EXCEPT ![s] = t]
    BY <1>1, <1>6 DEF Refuse, TypeInv, Pinned
  <2>5. s \in known \cap Pinned
    BY <1>2, <1>6 DEF IInv, Kept
  <2>6. \E x \in Pinned : \E y \in 0 .. now : Promise!Refuse(x, y)
    BY <1>1, <1>2, <1>4, <1>5, <1>6, <2>1, <2>3, <2>4, <2>5 DEF Promise!Refuse
  <2> QED BY <1>1, <1>6, <2>6 DEF Promise!Next
<1>7. CASE s \notin Pinned
  <2>1. [x \in Pinned |-> prev[x]]' = [x \in Pinned |-> prev[x]]
    BY <1>1, <1>7 DEF Refuse, TypeInv, Pinned
  <2> QED BY <1>2, <1>5, <2>1 DEF Promise!vars
<1> QED BY <1>6, <1>7

LEMMA SeenStore ==
  ASSUME IInv, NEW c \in Cpus, NEW f \in {"tokens", "last"}, Stored(c, f),
         f = "tokens" => tokens' = [tokens EXCEPT ![cpu[c].src] = cpu[c].tokens] /\ last' = last,
         f = "last" => last' = [last EXCEPT ![cpu[c].src] = Advanced(c)] /\ tokens' = tokens,
         cpu[c].pc = "store", f \in cpu[c].todo
  PROVE  [Promise!Next]_(Promise!vars)
<1> DEFINE s == cpu[c].src
           t == cpu[c].now
<1>1. TypeInv /\ s \in Sources /\ Working(c) /\ t \in 0 .. now
  BY SourceAtWork, RateAssumption DEF IInv, Base, Working, TypeInv, CpuState, InThePast
<1>2. /\ \A d \in Cpus \ {c} : cpu'[d] = cpu[d]
      /\ cpu'[c].pc = "store" => cpu'[c].src = s
      /\ \A x \in Sources \ {s} : last'[x] = last[x] /\ tokens'[x] = tokens[x]
      /\ UNCHANGED <<now, known, born>>
  BY <1>1, IdleState DEF TypeInv, CpuState, Stored
<1>3. \A x \in Pinned \ {s} : PromisedLast'[x] = PromisedLast[x] /\ PromisedTokens'[x] = PromisedTokens[x]
  BY <1>1, <1>2, OtherBuckets
<1>4. s \in Pinned => PromisedLast[s] = cpu[c].last /\ PromisedTokens[s] = cpu[c].old
  BY <1>1, OneStoring
<1>5. CASE cpu[c].todo # {f}
  <2>1. /\ cpu'[c].pc = "store" /\ cpu'[c].src = s
        /\ cpu'[c].last = cpu[c].last /\ cpu'[c].old = cpu[c].old
        /\ UNCHANGED <<admitted, prev>>
    BY <1>1, <1>5 DEF Stored, TypeInv, CpuState
  <2>2. s \in Pinned => PromisedLast'[s] = PromisedLast[s] /\ PromisedTokens'[s] = PromisedTokens[s]
    BY <1>1, <1>2, <1>4, <2>1, StillStoring
  <2>3. PromisedLast' = PromisedLast /\ PromisedTokens' = PromisedTokens
    BY <1>3, <2>2, Domains, DomainsNext
  <2> QED BY <1>2, <2>1, <2>3, Invisible DEF history
<1>6. CASE cpu[c].todo = {f} /\ s \in Pinned
  <2> DEFINE new == Promise!NewTokens(t - cpu[c].last)
  <2>1. /\ cpu[c].last <= t /\ cpu[c].new = new
        /\ Promise!Refilled(cpu[c].old, new) > 0
        /\ cpu[c].tokens = Promise!Refilled(cpu[c].old, new) - 1
        /\ last[s] = IF "last" \in {f} THEN cpu[c].last ELSE cpu[c].last + new * NS_PER_TOKEN
        /\ tokens[s] = IF "tokens" \in {f} THEN cpu[c].old ELSE cpu[c].tokens
    BY <1>6 DEF IInv, Current, LoadedIsCurrent
  <2>2. Advanced(c) = cpu[c].last + new * NS_PER_TOKEN
    BY <1>6, <2>1, LoadedSmall
  <2>3. /\ last'[s] = cpu[c].last + new * NS_PER_TOKEN
        /\ tokens'[s] = Promise!Refilled(cpu[c].old, new) - 1
    BY <1>1, <2>1, <2>2 DEF TypeInv
  <2>4. cpu'[c].pc # "store"
    BY <1>1, <1>6, IdleState DEF Stored, TypeInv
  <2>5. PromisedLast'[s] = last'[s] /\ PromisedTokens'[s] = tokens'[s]
    BY <1>1, <1>2, <1>6, <2>4, LastStored
  <2>6. /\ PromisedLast' = [PromisedLast EXCEPT ![s] = @ + new * NS_PER_TOKEN]
        /\ PromisedTokens' = [PromisedTokens EXCEPT ![s] = Promise!Refilled(@, new) - 1]
    BY <1>3, <1>4, <1>6, <2>3, <2>5, Domains, DomainsNext
  <2>7. /\ [x \in Pinned |-> admitted[x]]' = [[x \in Pinned |-> admitted[x]] EXCEPT ![s] = @ + 1]
        /\ [x \in Pinned |-> prev[x]]' = [[x \in Pinned |-> prev[x]] EXCEPT ![s] = t]
    BY <1>1, <1>6 DEF Stored, TypeInv, Pinned
  <2>8. s \in known \cap Pinned
    BY <1>6 DEF IInv, Kept
  <2>9. \E x \in Pinned : \E y \in 0 .. now : Promise!Admit(x, y)
    <3> HIDE DEF new
    <3>1. new = Promise!NewTokens(t - PromisedLast[s])
      BY <1>4, <1>6 DEF new
    <3> QED BY <1>1, <1>2, <1>4, <1>6, <2>1, <2>6, <2>7, <2>8, <3>1 DEF Promise!Admit
  <2> QED BY <1>1, <1>6, <2>9 DEF Promise!Next
<1>7. CASE cpu[c].todo = {f} /\ s \notin Pinned
  <2>1. /\ [x \in Pinned |-> admitted[x]]' = [x \in Pinned |-> admitted[x]]
        /\ [x \in Pinned |-> prev[x]]' = [x \in Pinned |-> prev[x]]
    BY <1>1, <1>7 DEF Stored, TypeInv, Pinned
  <2>2. PromisedLast' = PromisedLast /\ PromisedTokens' = PromisedTokens
    BY <1>3, <1>7, Domains, DomainsNext
  <2> QED BY <1>2, <2>1, <2>2 DEF Promise!vars
<1> QED BY <1>5, <1>6, <1>7

LEMMA SeenTick == Tick => Promise!Tick
<1> SUFFICES ASSUME Tick PROVE Promise!Tick
  OBVIOUS
<1>1. UNCHANGED <<known, last, tokens, cpu, born, admitted, prev>>
  BY DEF Tick, bucket, history
<1>2. PromisedLast' = PromisedLast /\ PromisedTokens' = PromisedTokens
  BY <1>1 DEF PromisedLast, PromisedTokens, Storing, Loaded
<1> QED BY <1>1, <1>2 DEF Tick, Promise!Tick

LEMMA NextPromise == IInv /\ [Next]_vars => [Promise!Next]_(Promise!vars)
<1> SUFFICES ASSUME IInv, [Next]_vars PROVE [Promise!Next]_(Promise!vars)
  OBVIOUS
<1>1. CASE UNCHANGED vars
  <2>1. UNCHANGED <<now, known, last, tokens, cpu, born, admitted, prev>>
    BY <1>1 DEF vars, bucket, history
  <2> QED BY <2>1 DEF Promise!vars, PromisedLast, PromisedTokens, Storing, Loaded
<1>2. CASE Tick
  BY <1>2, SeenTick DEF Promise!Next
<1>3. ASSUME NEW c \in Cpus, Cpu(c) PROVE [Promise!Next]_(Promise!vars)
  <2>1. CASE Lookup(c) \/ InsertFails(c) \/ LoadLast(c)
    <3>1. cpu[c].src \in Sources
      BY <2>1, SourceAtWork DEF IInv, Working, Lookup, InsertFails, LoadLast
    <3> QED BY <2>1, <3>1, Unseen
  <2>2. CASE StoreTokens(c) \/ StoreLast(c)
    BY <2>2, SeenStore DEF StoreTokens, StoreLast, Spent
  <2> QED
    BY <1>3, <2>1, <2>2, Unseen, UnseenLoad, SeenInsert, SeenRefuse DEF Cpu
<1> QED BY <1>1, <1>2, <1>3 DEF Next

\* For every source that the NIC hands to one CPU the unlocked loads and stores
\* of check_ratelim_ipv4 and check_ratelim_ipv6 implement the token bucket,
\* whatever the other sources and CPUs do to the map.
THEOREM RateLimitIsTokenBucket == Spec => IsTokenBucket
BY InitIInv, NextIInv, InitPromise, NextPromise, PTL DEF Spec, IsTokenBucket, Promise!Spec

-----------------------------------------------------------------------------
(* What TokenBucketProofs shows of the token bucket, for the limiter.       *)

Bucket == INSTANCE TokenBucketProofs WITH
  Sources <- Pinned,
  known <- known \cap Pinned,
  last <- PromisedLast,
  tokens <- PromisedTokens,
  born <- [s \in Pinned |-> born[s]],
  admitted <- [s \in Pinned |-> admitted[s]],
  prev <- [s \in Pinned |-> prev[s]]

LEMMA BucketConstants == Bucket!BucketAssumption
BY RateAssumption DEF Bucket!BucketAssumption

LEMMA SpecBucket == Spec => Bucket!Spec
<1>1. Promise!Init => Bucket!Init
  BY DEF Promise!Init, Bucket!Init
<1>2. Promise!Next => Bucket!Next
  BY DEF Promise!Next, Promise!Tick, Promise!Forget, Promise!FirstPacket, Promise!Admit,
         Promise!Refuse, Promise!NewTokens, Promise!Refilled, Promise!Smaller,
         Bucket!Next, Bucket!Tick, Bucket!Forget, Bucket!FirstPacket, Bucket!Admit,
         Bucket!Refuse, Bucket!NewTokens, Bucket!Refilled, Bucket!Smaller
<1>3. Promise!vars = Bucket!vars /\ Promise!vars' = Bucket!vars'
  BY DEF Promise!vars, Bucket!vars
<1>4. [Promise!Next]_(Promise!vars) => [Bucket!Next]_(Bucket!vars)
  BY <1>2, <1>3
<1> QED
  BY <1>1, <1>4, InitIInv, NextIInv, InitPromise, NextPromise, PTL DEF Spec, Bucket!Spec

\* check_ratelim_ipv4 and check_ratelim_ipv6 bound the rate of a source that
\* reaches one CPU: since its bucket was made it has had at most BURST packets
\* passed, plus one per NS_PER_TOKEN nanoseconds.
PinnedRate == \A s \in known \cap Pinned : (admitted[s] - BURST) * NS_PER_TOKEN <= now - born[s]
THEOREM PinnedRateIsBounded == Spec => []PinnedRate
<1>1. Bucket!RateBound => PinnedRate
  BY DEF Bucket!RateBound, PinnedRate
<1>2. Bucket!Spec => []Bucket!RateBound
  BY Bucket!RateIsBounded, BucketConstants
<1> QED BY <1>1, <1>2, SpecBucket, PTL

\* check_ratelim_ipv4 and check_ratelim_ipv6 never refuse a packet of a source
\* that reaches one CPU and whose packets are NS_PER_TOKEN apart.
PinnedSlowStep ==
  \A s \in known \cap known' \cap Pinned :
    (prev'[s] >= prev[s] + NS_PER_TOKEN) => admitted'[s] > admitted[s]
THEOREM PinnedSlowIsNeverRefused == Spec => [][PinnedSlowStep]_vars
<1>1. IInv /\ [Next]_vars /\ [Bucket!SlowStep]_(Bucket!vars) => [PinnedSlowStep]_vars
  <2> SUFFICES ASSUME IInv, [Bucket!SlowStep]_(Bucket!vars),
                      NEW s \in known \cap known' \cap Pinned,
                      prev'[s] >= prev[s] + NS_PER_TOKEN
               PROVE  admitted'[s] > admitted[s]
    BY DEF PinnedSlowStep
  <2>1. CASE Bucket!SlowStep
    BY <2>1 DEF Bucket!SlowStep
  <2>2. CASE UNCHANGED Bucket!vars
    <3>1. [x \in Pinned |-> prev[x]]'[s] = [x \in Pinned |-> prev[x]][s]
      BY <2>2 DEF Bucket!vars
    <3>2. prev'[s] = prev[s] /\ prev[s] \in Nat
      BY <3>1 DEF IInv, Base, TypeInv, Pinned
    <3> QED BY <3>2, RateAssumption
  <2> QED BY <2>1, <2>2
<1>2. Bucket!Spec => [][Bucket!SlowStep]_(Bucket!vars)
  BY Bucket!SlowIsNeverRefused, BucketConstants DEF Bucket!SlowNeverRefused
<1> QED BY <1>1, <1>2, SpecBucket, InitIInv, NextIInv, PTL DEF Spec

=============================================================================
