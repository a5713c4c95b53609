--------------------------- MODULE PipelineProofs ---------------------------
(* Proofs about Pipeline, for any messages, any blocks that are refused and *)
(* any number of sniffers that count in the map of clients at once.         *)
EXTENDS Pipeline, FiniteSetTheorems, SequenceTheorems, WellFoundedInduction, TLAPS

-----------------------------------------------------------------------------
(* How many of something there are.                                         *)

Occurrences(seq, e) == {i \in 1 .. Len(seq) : seq[i] = e}
One(b) == IF b THEN 1 ELSE 0

LEMMA OccurrencesFinite ==
  ASSUME NEW S, NEW seq \in Seq(S), NEW e
  PROVE  IsFiniteSet(Occurrences(seq, e)) /\ Cardinality(Occurrences(seq, e)) \in Nat
<1>1. IsFiniteSet(1 .. Len(seq))
  BY FS_Interval
<1>2. Occurrences(seq, e) \in SUBSET (1 .. Len(seq))
  BY DEF Occurrences
<1> QED BY <1>1, <1>2, FS_Subset, FS_CardinalityType

LEMMA OccurrencesAppend ==
  ASSUME NEW S, NEW seq \in Seq(S), NEW d \in S, NEW e
  PROVE  Cardinality(Occurrences(Append(seq, d), e))
           = Cardinality(Occurrences(seq, e)) + One(d = e)
<1>1. Len(seq) \in Nat /\ Len(seq) + 1 \notin Occurrences(seq, e)
  BY DEF Occurrences
<1>2. CASE d = e
  <2>1. Occurrences(Append(seq, d), e) = Occurrences(seq, e) \cup {Len(seq) + 1}
    BY <1>2 DEF Occurrences
  <2> QED BY <2>1, <1>1, <1>2, OccurrencesFinite, FS_AddElement DEF One
<1>3. CASE d # e
  <2>1. Occurrences(Append(seq, d), e) = Occurrences(seq, e)
    BY <1>3 DEF Occurrences
  <2> QED BY <2>1, <1>3, OccurrencesFinite DEF One
<1> QED BY <1>2, <1>3

LEMMA OccurrencesTail ==
  ASSUME NEW S, NEW seq \in Seq(S), seq # <<>>, NEW e
  PROVE  Cardinality(Occurrences(seq, e))
           = Cardinality(Occurrences(Tail(seq), e)) + One(Head(seq) = e)
<1> DEFINE Later == Occurrences(seq, e) \ {1}
<1>1. /\ Tail(seq) \in Seq(S) /\ Len(seq) \in Nat \ {0} /\ Len(Tail(seq)) = Len(seq) - 1
      /\ \A i \in 1 .. Len(Tail(seq)) : Tail(seq)[i] = seq[i + 1]
      /\ Head(seq) = seq[1]
  OBVIOUS
<1>2. Cardinality(Later) = Cardinality(Occurrences(Tail(seq), e))
  <2> DEFINE shift == [i \in Occurrences(Tail(seq), e) |-> i + 1]
  <2>1. shift \in [Occurrences(Tail(seq), e) -> Later]
    BY <1>1 DEF Occurrences
  <2>2. \A i, j \in Occurrences(Tail(seq), e) : shift[i] = shift[j] => i = j
    BY <1>1 DEF Occurrences
  <2>3. \A k \in Later : \E i \in Occurrences(Tail(seq), e) : shift[i] = k
    <3> SUFFICES ASSUME NEW k \in Later
                 PROVE  k - 1 \in Occurrences(Tail(seq), e) /\ shift[k - 1] = k
      OBVIOUS
    <3> QED BY <1>1 DEF Occurrences
  <2>4. ExistsBijection(Occurrences(Tail(seq), e), Later)
    <3> HIDE DEF Later, shift
    <3> QED BY <2>1, <2>2, <2>3 DEF ExistsBijection, Bijection, Injection, Surjection, IsInjective
  <2> QED BY <2>4, <1>1, OccurrencesFinite, FS_Bijection
<1>3. Cardinality(Later) = Cardinality(Occurrences(seq, e)) - One(1 \in Occurrences(seq, e))
  <2>1. IsFiniteSet(Occurrences(seq, e))
    BY OccurrencesFinite
  <2>2. Cardinality(Later) = IF 1 \in Occurrences(seq, e) THEN Cardinality(Occurrences(seq, e)) - 1
                             ELSE Cardinality(Occurrences(seq, e))
    BY <2>1, FS_RemoveElement
  <2> QED BY <2>2, OccurrencesFinite DEF One
<1>4. 1 \in Occurrences(seq, e) <=> Head(seq) = e
  BY <1>1 DEF Occurrences
<1> QED BY <1>1, <1>2, <1>3, <1>4, OccurrencesFinite DEF One

LEMMA OneIn ==
  ASSUME NEW S, NEW e
  PROVE  Cardinality(S \cap {e}) = One(e \in S)
<1>1. CASE e \in S
  <2>1. S \cap {e} = {e}
    BY <1>1
  <2> QED BY <2>1, <1>1, FS_Singleton DEF One
<1>2. CASE e \notin S
  <2>1. S \cap {e} = {}
    BY <1>2
  <2> QED BY <2>1, <1>2, FS_EmptySet DEF One
<1> QED BY <1>1, <1>2

-----------------------------------------------------------------------------
(* The inductive invariant.                                                 *)

Pairs == Sniffers \X Queues
Holders(e) == {w \in Pairs : busy[w] = e}

StateType ==
  /\ stopped \in BOOLEAN
  /\ pc \in [Sniffers -> {"init", "connected", "running"}]
  /\ Client \in BOOLEAN
  /\ workers \in [Queues -> SUBSET Sniffers]
  /\ queue \in [Queues -> Seq(Events)]
  /\ \A q \in Queues : Len(queue[q]) <= Capacity /\ \A i \in 1 .. Len(queue[q]) : queue[q][i].q = q
  /\ busy \in [Pairs -> Events \cup {None}]
  /\ count \in [Sniffers -> [Queues -> 0 .. MaxEvents]]
  /\ indexed \in [Events -> Nat]
  /\ lost \subseteq Events /\ silent \subseteq lost

\* The first part of EachEventOnce.
Once == \A e \in Events : Places(e) = IF e \in Logged THEN 1 ELSE 0
OnceInv == StateType /\ Once

\* The four places, as a sum that an action can change one term at a time.
Total(e) ==
  Cardinality(Occurrences(queue[e.q], e)) + Cardinality(Holders(e)) + indexed[e] + One(e \in lost)

LEMMA PlacesIsTotal == ASSUME NEW e PROVE Places(e) = Total(e) /\ Places(e)' = Total(e)'
<1>1. Cardinality(lost \cap {e}) = One(e \in lost) /\ Cardinality(lost' \cap {e}) = One(e \in lost')
  BY OneIn
<1> QED BY <1>1 DEF Places, Total, Occurrences, Holders, Pairs

LEMMA HoldersFinite ==
  ASSUME NEW e
  PROVE  IsFiniteSet(Holders(e)) /\ Cardinality(Holders(e)) \in Nat
<1>1. IsFiniteSet(Pairs) /\ Holders(e) \in SUBSET Pairs
  BY LoggerAssumption, FS_Product DEF Pairs, Holders
<1> QED BY <1>1, FS_Subset, FS_CardinalityType

LEMMA HoldersFinitePrime ==
  ASSUME NEW e
  PROVE  Cardinality(Holders(e)') \in Nat
<1>1. IsFiniteSet(Pairs) /\ Holders(e)' \in SUBSET Pairs
  BY LoggerAssumption, FS_Product DEF Pairs, Holders
<1> QED BY <1>1, FS_Subset, FS_CardinalityType

LEMMA TermsTyped ==
  ASSUME StateType, NEW e \in Events
  PROVE  /\ e.q \in Queues /\ e.by \in Sniffers /\ e.n \in 1 .. MaxEvents
         /\ queue[e.q] \in Seq(Events)
         /\ Cardinality(Occurrences(queue[e.q], e)) \in Nat
         /\ Cardinality(Holders(e)) \in Nat
         /\ indexed[e] \in Nat
         /\ One(e \in lost) \in {0, 1}
<1>1. e.q \in Queues /\ e.by \in Sniffers /\ e.n \in 1 .. MaxEvents
  BY DEF Events
<1>2. queue[e.q] \in Seq(Events) /\ indexed[e] \in Nat
  BY <1>1 DEF StateType
<1> QED BY <1>1, <1>2, OccurrencesFinite, HoldersFinite DEF One

LEMMA TotalInt ==
  ASSUME StateType, NEW e \in Events
  PROVE  Total(e) \in Nat /\ Total(e) + 0 = Total(e)
<1>1. /\ Cardinality(Occurrences(queue[e.q], e)) \in Nat
      /\ Cardinality(Holders(e)) \in Nat
      /\ indexed[e] \in Nat
      /\ One(e \in lost) \in Nat
  BY TermsTyped
<1> QED BY <1>1 DEF Total

\* What the changes of its terms make of the total of an event.
LEMMA TotalChange ==
  ASSUME StateType, NEW e \in Events,
         NEW a \in Int, NEW b \in Int, NEW c \in Int,
         Cardinality(Occurrences(queue'[e.q], e)) = Cardinality(Occurrences(queue[e.q], e)) + a,
         Cardinality(Holders(e)') = Cardinality(Holders(e)) + b,
         indexed'[e] + One(e \in lost') = indexed[e] + One(e \in lost) + c,
         indexed'[e] \in Nat
  PROVE  Total(e)' = Total(e) + (a + b + c)
<1>1. /\ Cardinality(Occurrences(queue[e.q], e)) \in Nat
      /\ Cardinality(Holders(e)) \in Nat
      /\ indexed[e] \in Nat
      /\ One(e \in lost) \in Nat
  BY TermsTyped, SMTT(20)
<1>2. One(e \in lost') \in Nat
  BY DEF One
<1>3. Total(e) = Cardinality(Occurrences(queue[e.q], e)) + Cardinality(Holders(e))
                   + indexed[e] + One(e \in lost)
  BY DEF Total
<1>4. Total(e)' = Cardinality(Occurrences(queue'[e.q], e)) + Cardinality(Holders(e)')
                    + indexed'[e] + One(e \in lost')
  BY DEF Total
<1> QED BY <1>1, <1>2, <1>3, <1>4

\* A worker that takes an event, and one that is done with it.
LEMMA TakenUp ==
  ASSUME NEW w \in Pairs, NEW d \in Events, NEW e \in Events, busy \in [Pairs -> Events \cup {None}],
         busy[w] # e, busy'[w] = d, \A v \in Pairs \ {w} : busy'[v] = busy[v]
  PROVE  Cardinality(Holders(e)') = Cardinality(Holders(e)) + One(d = e)
<1>1. Holders(e)' = IF d = e THEN Holders(e) \cup {w} ELSE Holders(e)
  BY DEF Holders
<1>2. w \notin Holders(e)
  BY DEF Holders
<1>3. CASE d = e
  <2>1. Cardinality(Holders(e) \cup {w}) = Cardinality(Holders(e)) + 1
    BY <1>2, HoldersFinite, FS_AddElement
  <2> QED BY <2>1, <1>1, <1>3 DEF One
<1>4. CASE d # e
  BY <1>1, <1>4, HoldersFinite DEF One
<1> QED BY <1>3, <1>4

LEMMA PutDown ==
  ASSUME NEW w \in Pairs, NEW e \in Events, busy \in [Pairs -> Events \cup {None}],
         busy' = [busy EXCEPT ![w] = None]
  PROVE  Cardinality(Holders(e)) = Cardinality(Holders(e)') + One(busy[w] = e)
<1>1. Holders(e)' = Holders(e) \ {w}
  BY LoggerAssumption DEF Holders
<1>2. Cardinality(Holders(e) \ {w})
        = IF w \in Holders(e) THEN Cardinality(Holders(e)) - 1 ELSE Cardinality(Holders(e))
  BY HoldersFinite, FS_RemoveElement
<1>3. w \in Holders(e) <=> busy[w] = e
  BY DEF Holders
<1> QED BY <1>1, <1>2, <1>3, HoldersFinite DEF One

LEMMA InitInvariant == Init => OnceInv
<1> SUFFICES ASSUME Init PROVE OnceInv
  OBVIOUS
<1>1. StateType
  <2>1. \A q \in Queues : queue[q] = <<>>
    BY DEF Init
  <2>2. /\ queue \in [Queues -> Seq(Events)]
        /\ \A q \in Queues : Len(queue[q]) <= Capacity /\ \A i \in 1 .. Len(queue[q]) : queue[q][i].q = q
    BY <2>1, LoggerAssumption DEF Init
  <2>3. /\ count \in [Sniffers -> [Queues -> 0 .. MaxEvents]]
        /\ indexed \in [Events -> Nat] /\ lost \subseteq Events /\ silent \subseteq lost
    BY LoggerAssumption DEF Init
  <2> QED BY <2>2, <2>3 DEF Init, StateType, Pairs
<1>2. ASSUME NEW e \in Events PROVE Places(e) = IF e \in Logged THEN 1 ELSE 0
  <2>1. queue[e.q] = <<>> /\ indexed[e] = 0 /\ lost = {} /\ count[e.by][e.q] = 0 /\ e.n \in 1 .. MaxEvents
    BY <1>1, TermsTyped DEF Init
  <2>2. Occurrences(queue[e.q], e) = {}
    BY <2>1 DEF Occurrences
  <2>3. Holders(e) = {}
    BY LoggerAssumption DEF Init, Holders, Pairs
  <2>4. Total(e) = 0
    <3>1. Cardinality({}) = 0
      BY FS_EmptySet
    <3> QED BY <3>1, <2>1, <2>2, <2>3, SMTT(20) DEF Total, One
  <2>5. e \notin Logged
    BY <2>1, LoggerAssumption DEF Logged
  <2> QED BY <2>4, <2>5, PlacesIsTotal
<1> QED BY <1>1, <1>2 DEF OnceInv, Once

\* Once is kept by a step that leaves the total of every event alone.
LEMMA SameTotals ==
  ASSUME OnceInv, count' = count, \A e \in Events : Total(e)' = Total(e)
  PROVE  Once'
<1>1. Logged' = Logged
  BY DEF Logged
<1>2. ASSUME NEW e \in Events PROVE Places(e)' = IF e \in Logged' THEN 1 ELSE 0
  <2>1. Places(e)' = Total(e)'
    BY PlacesIsTotal
  <2> QED BY <2>1, <1>1, PlacesIsTotal DEF OnceInv, Once
<1> QED BY <1>2 DEF Once

-----------------------------------------------------------------------------
(* The steps.                                                               *)

LEMMA ControlStep ==
  ASSUME OnceInv, Stop \/ (\E s \in Sniffers : InitFails(s) \/ InitConnects(s) \/ startWorkers(s))
  PROVE  OnceInv'
<1>1. /\ queue' = queue /\ busy' = busy /\ count' = count /\ indexed' = indexed
      /\ lost' = lost /\ silent' = silent
      /\ stopped' \in BOOLEAN /\ pc' \in [Sniffers -> {"init", "connected", "running"}]
      /\ Client' \in BOOLEAN /\ workers' \in [Queues -> SUBSET Sniffers]
  <2>1. CASE Stop
    BY <2>1 DEF OnceInv, StateType, Stop
  <2>2. ASSUME NEW s \in Sniffers, InitFails(s) \/ InitConnects(s)
        PROVE  /\ queue' = queue /\ busy' = busy /\ count' = count /\ indexed' = indexed
               /\ lost' = lost /\ silent' = silent
               /\ stopped' \in BOOLEAN /\ pc' \in [Sniffers -> {"init", "connected", "running"}]
               /\ Client' \in BOOLEAN /\ workers' \in [Queues -> SUBSET Sniffers]
    BY <2>2 DEF OnceInv, StateType, InitFails, InitConnects
  <2>3. ASSUME NEW s \in Sniffers, startWorkers(s)
        PROVE  /\ queue' = queue /\ busy' = busy /\ count' = count /\ indexed' = indexed
               /\ lost' = lost /\ silent' = silent
               /\ stopped' \in BOOLEAN /\ pc' \in [Sniffers -> {"init", "connected", "running"}]
               /\ Client' \in BOOLEAN /\ workers' \in [Queues -> SUBSET Sniffers]
    BY <2>3 DEF OnceInv, StateType, startWorkers
  <2> QED BY <2>1, <2>2, <2>3
<1>2. StateType'
  BY <1>1 DEF OnceInv, StateType
<1>3. Once'
  BY <1>1, SameTotals DEF Total, Holders
<1> QED BY <1>2, <1>3 DEF OnceInv

\* An event that is logged is counted, and is in the queue or lost.
LEMMA LogStep ==
  ASSUME OnceInv, NEW s \in Sniffers, NEW q \in Queues, Log(s, q)
  PROVE  OnceInv'
<1> PICK n \in Nat : n = count[s][q] + 1
  BY DEF OnceInv, StateType
<1>0. n \in 1 .. MaxEvents /\ count[s][q] = n - 1 /\ count[s][q] \in Nat
  <2>1. count[s][q] \in 0 .. MaxEvents /\ count[s][q] < MaxEvents
    BY DEF OnceInv, StateType, Log
  <2> QED BY <2>1, LoggerAssumption
<1> PICK d \in Events : /\ d.by = s /\ d.q = q /\ d.n = n
                        /\ enqueue(d)
                        /\ \A e \in Events : e.by = s /\ e.q = q /\ e.n = n => e = d
  <2> DEFINE r == [by |-> s, q |-> q, n |-> n]
  <2>1. r \in Events /\ r.by = s /\ r.q = q /\ r.n = n
    BY <1>0 DEF Events
  <2>2. \A e \in Events : e.by = s /\ e.q = q /\ e.n = n => e = r
    BY DEF Events
  <2>3. enqueue(r)
    BY DEF Log
  <2> HIDE DEF r
  <2> QED BY <2>1, <2>2, <2>3
<1>1. /\ d.by = s /\ d.q = q /\ d.n = n
      /\ \A e \in Events : e.by = s /\ e.q = q /\ e.n = n => e = d
  OBVIOUS
<1>2. /\ count' = [count EXCEPT ![s][q] = n]
      /\ enqueue(d) /\ count[s][q] = n - 1
      /\ stopped' = stopped /\ pc' = pc /\ Client' = Client /\ workers' = workers
      /\ busy' = busy /\ indexed' = indexed
  BY <1>0 DEF Log
<1>4. StateType
  BY DEF OnceInv
<1>5. /\ count' \in [Sniffers -> [Queues -> 0 .. MaxEvents]]
      /\ count'[s][q] = n
      /\ \A x \in Sniffers : \A y \in Queues : x # s \/ y # q => count'[x][y] = count[x][y]
  <2>1. n \in 0 .. MaxEvents
    BY <1>0, LoggerAssumption
  <2> QED BY <2>1, <1>2, <1>4 DEF StateType
<1>6. ASSUME queue' = [queue EXCEPT ![q] = Append(queue[q], d)], Len(queue[q]) < Capacity, lost' = lost,
             silent' = silent
      PROVE  StateType' /\ \A e \in Events : Total(e)' = Total(e) + One(d = e)
  <2>1. /\ queue' \in [Queues -> Seq(Events)] /\ queue'[q] = Append(queue[q], d)
        /\ \A x \in Queues \ {q} : queue'[x] = queue[x]
    BY <1>1, <1>4, <1>6 DEF StateType
  <2>2. \A x \in Queues : /\ Len(queue'[x]) <= Capacity
                          /\ \A i \in 1 .. Len(queue'[x]) : queue'[x][i].q = x
    <3>1. queue[q] \in Seq(Events) /\ Len(queue'[q]) = Len(queue[q]) + 1
      BY <2>1, <1>1, <1>4 DEF StateType
    <3>2. Len(queue'[q]) <= Capacity /\ \A i \in 1 .. Len(queue'[q]) : queue'[q][i].q = q
      <4>1. Len(queue[q]) \in Nat /\ \A i \in 1 .. Len(queue[q]) : queue[q][i].q = q
        BY <3>1, <1>4 DEF StateType
      <4>2. \A i \in 1 .. Len(queue'[q]) :
              \/ i \in 1 .. Len(queue[q]) /\ queue'[q][i] = queue[q][i]
              \/ queue'[q][i] = d
        BY <4>1, <3>1, <2>1
      <4>3. Len(queue'[q]) <= Capacity
        BY <4>1, <3>1, <1>6, LoggerAssumption
      <4> QED BY <4>1, <4>2, <4>3, <1>1
    <3> QED BY <3>2, <2>1, <1>4 DEF StateType
  <2>3. StateType'
    BY <2>1, <2>2, <1>2, <1>4, <1>5, <1>6 DEF StateType
  <2>4. ASSUME NEW e \in Events PROVE Total(e)' = Total(e) + One(d = e)
    <3>1. Cardinality(Occurrences(queue'[q], e)) = Cardinality(Occurrences(queue[q], e)) + One(d = e)
      <4>1. queue[q] \in Seq(Events)
        BY <1>4 DEF StateType
      <4> QED BY <4>1, <2>1, OccurrencesAppend
    <3>2. e.q # q => queue'[e.q] = queue[e.q] /\ One(d = e) = 0
      BY <2>1, <1>1, <1>4, TermsTyped DEF One
    <3>3. Cardinality(Occurrences(queue'[e.q], e))
            = Cardinality(Occurrences(queue[e.q], e)) + One(d = e)
      BY <3>1, <3>2, <1>4, TermsTyped
    <3>4. Holders(e)' = Holders(e) /\ indexed'[e] = indexed[e] /\ One(e \in lost') = One(e \in lost)
      BY <1>2, <1>6 DEF Holders
    <3>5. One(d = e) \in Int /\ 0 \in Int
      BY DEF One
    <3>6. /\ Cardinality(Holders(e)') = Cardinality(Holders(e)) + 0
          /\ indexed'[e] + One(e \in lost') = indexed[e] + One(e \in lost) + 0
          /\ indexed'[e] \in Nat
      BY <3>4, <1>4, TermsTyped
    <3>7. Total(e)' = Total(e) + (One(d = e) + 0 + 0)
      BY <3>3, <3>5, <3>6, <1>4, TotalChange
    <3> QED BY <3>5, <3>7
  <2> QED BY <2>3, <2>4
<1>7. ASSUME lost' = lost \cup {d}, silent' \subseteq silent \cup {d}, queue' = queue
      PROVE  StateType' /\ \A e \in Events : Total(e)' = Total(e) + One(d = e)
  <2>1. StateType'
    BY <1>1, <1>2, <1>4, <1>5, <1>7 DEF StateType
  <2>2. d \notin lost
    <3>1. d \notin Logged
      <4>1. d \in Logged => d.n <= count[d.by][d.q]
        BY DEF Logged
      <4>2. count[d.by][d.q] = n - 1 /\ d.n = n
        BY <1>0, <1>1
      <4> QED BY <4>1, <4>2
    <3>2. Total(d) = 0
      BY <3>1, PlacesIsTotal DEF OnceInv, Once
    <3> QED BY <3>2, <1>4, TermsTyped DEF Total, One
  <2>3. ASSUME NEW e \in Events PROVE Total(e)' = Total(e) + One(d = e)
    <3>1. One(e \in lost') = One(e \in lost) + One(d = e)
      BY <2>2, <1>7 DEF One
    <3>2. Holders(e)' = Holders(e) /\ indexed'[e] = indexed[e] /\ queue'[e.q] = queue[e.q]
      BY <1>2, <1>7 DEF Holders
    <3>3. One(d = e) \in Int /\ 0 \in Int
      BY DEF One
    <3>4. /\ Cardinality(Occurrences(queue'[e.q], e)) = Cardinality(Occurrences(queue[e.q], e)) + 0
          /\ Cardinality(Holders(e)') = Cardinality(Holders(e)) + 0
          /\ indexed'[e] + One(e \in lost') = indexed[e] + One(e \in lost) + One(d = e)
          /\ indexed'[e] \in Nat
      <4>1. One(e \in lost) \in Int /\ indexed[e] \in Nat
        BY <1>4, TermsTyped
      <4> QED BY <4>1, <3>1, <3>2, <3>3, <1>4, TermsTyped
    <3>5. Total(e)' = Total(e) + (0 + 0 + One(d = e))
      BY <3>3, <3>4, <1>4, TotalChange
    <3> QED BY <3>3, <3>5
  <2> QED BY <2>1, <2>3
<1>8. StateType' /\ \A e \in Events : Total(e)' = Total(e) + One(d = e)
  BY <1>6, <1>7, <1>1, <1>2 DEF enqueue, DropSilently
<1>9. ASSUME NEW e \in Events PROVE Places(e)' = IF e \in Logged' THEN 1 ELSE 0
  <2>1. Places(e) = (IF e \in Logged THEN 1 ELSE 0) /\ Places(e)' = Places(e) + One(d = e)
    BY <1>8, PlacesIsTotal DEF OnceInv, Once
  <2>2. e.by \in Sniffers /\ e.q \in Queues /\ e.n \in Nat
    BY <1>4, TermsTyped, LoggerAssumption
  <2>3. CASE e = d
    <3>1. e \in Logged' /\ e \notin Logged
      <4>1. /\ e \in Logged' <=> e.n <= count'[e.by][e.q]
            /\ e \in Logged <=> e.n <= count[e.by][e.q]
        BY DEF Logged
      <4>2. e.n = n /\ count'[e.by][e.q] = n /\ count[e.by][e.q] = n - 1
        BY <2>3, <1>0, <1>1, <1>5
      <4> QED BY <4>1, <4>2
    <3> QED BY <3>1, <2>1, <2>3 DEF One
  <2>4. CASE e # d
    <3>1. e.by = s /\ e.q = q => e.n # n
      BY <2>4, <1>1
    <3>2. e.n <= count'[e.by][e.q] <=> e.n <= count[e.by][e.q]
      <4>1. CASE e.by = s /\ e.q = q
        <5>1. count'[e.by][e.q] = n /\ count[e.by][e.q] = n - 1 /\ e.n # n
          BY <4>1, <3>1, <1>0, <1>5
        <5> QED BY <5>1, <2>2
      <4>2. CASE e.by # s \/ e.q # q
        BY <4>2, <2>2, <1>5
      <4> QED BY <4>1, <4>2
    <3> QED BY <3>2, <2>1, <2>4 DEF Logged, One
  <2> QED BY <2>3, <2>4
<1> QED BY <1>8, <1>9 DEF OnceInv, Once

\* An event goes from the queue to a worker.
LEMMA ReceiveStep ==
  ASSUME OnceInv, NEW s \in Sniffers, NEW q \in Queues, Receive(s, q)
  PROVE  OnceInv'
<1> PICK w \in Pairs : w = <<s, q>>
  BY DEF Pairs
<1>0. StateType
  BY DEF OnceInv
<1>1. StateType /\ queue[q] \in Seq(Events) /\ queue[q] # <<>>
  BY DEF OnceInv, StateType, Receive
<1>2. PICK d \in Events : d = Head(queue[q]) /\ d.q = q
  <2>1. Head(queue[q]) = queue[q][1] /\ 1 \in 1 .. Len(queue[q]) /\ queue[q][1] \in Events
    BY <1>1
  <2> QED BY <2>1, <1>1 DEF StateType
<1>3. /\ busy[w] = None /\ busy' = [busy EXCEPT ![w] = d]
      /\ queue' = [queue EXCEPT ![q] = Tail(queue[q])]
      /\ stopped' = stopped /\ pc' = pc /\ Client' = Client /\ workers' = workers
      /\ count' = count /\ indexed' = indexed /\ lost' = lost /\ silent' = silent
  BY <1>2 DEF Receive
<1>4. /\ queue' \in [Queues -> Seq(Events)] /\ queue'[q] = Tail(queue[q])
      /\ \A x \in Queues \ {q} : queue'[x] = queue[x]
  BY <1>1, <1>3 DEF StateType
<1>5. \A x \in Queues : /\ Len(queue'[x]) <= Capacity
                        /\ \A i \in 1 .. Len(queue'[x]) : queue'[x][i].q = x
  <2>1. Len(queue'[q]) = Len(queue[q]) - 1 /\ \A i \in 1 .. Len(queue'[q]) : queue'[q][i] = queue[q][i + 1]
    BY <1>1, <1>4
  <2>2. Len(queue'[q]) <= Capacity /\ \A i \in 1 .. Len(queue'[q]) : queue'[q][i].q = q
    <3>1. Len(queue[q]) <= Capacity /\ \A i \in 1 .. Len(queue[q]) : queue[q][i].q = q
      BY <1>1 DEF StateType
    <3>2. Len(queue[q]) \in Nat \ {0} /\ Capacity \in Nat
      BY <1>1, LoggerAssumption
    <3> QED BY <2>1, <3>1, <3>2
  <2> QED BY <2>2, <1>1, <1>4 DEF StateType
<1>6. busy' \in [Pairs -> Events \cup {None}]
  BY <1>1, <1>3 DEF StateType
<1>7. StateType'
  BY <1>1, <1>3, <1>4, <1>5, <1>6 DEF StateType
<1>8. ASSUME NEW e \in Events PROVE Total(e)' = Total(e)
  <2>1. Cardinality(Holders(e)') = Cardinality(Holders(e)) + One(d = e)
    <3>1. busy \in [Pairs -> Events \cup {None}] /\ busy[w] # e
      BY <1>1, <1>3, LoggerAssumption DEF StateType
    <3>2. busy'[w] = d /\ \A v \in Pairs \ {w} : busy'[v] = busy[v]
      BY <3>1, <1>3
    <3> QED BY <3>1, <3>2, TakenUp
  <2>2. /\ Cardinality(Occurrences(queue[q], e)) = Cardinality(Occurrences(Tail(queue[q]), e)) + One(d = e)
        /\ Cardinality(Occurrences(Tail(queue[q]), e)) \in Nat
    <3>1. Tail(queue[q]) \in Seq(Events)
      BY <1>1
    <3>2. Cardinality(Occurrences(Tail(queue[q]), e)) \in Nat
      BY <3>1, OccurrencesFinite
    <3>3. Cardinality(Occurrences(queue[q], e))
            = Cardinality(Occurrences(Tail(queue[q]), e)) + One(Head(queue[q]) = e)
      BY <1>1, OccurrencesTail
    <3> QED BY <3>2, <3>3, <1>2
  <2>3. One(d = e) \in Nat /\ (d # e => One(d = e) = 0)
    BY DEF One
  <2>4. Cardinality(Occurrences(queue'[e.q], e)) = Cardinality(Occurrences(queue[e.q], e)) + (0 - One(d = e))
    <3>1. CASE e.q = q
      BY <3>1, <2>2, <2>3, <1>4
    <3>2. CASE e.q # q
      <4>1. queue'[e.q] = queue[e.q] /\ Cardinality(Occurrences(queue[e.q], e)) \in Nat
        BY <3>2, <1>1, <1>4, TermsTyped
      <4> QED BY <4>1, <3>2, <2>3, <1>2
    <3> QED BY <3>1, <3>2
  <2>5. /\ indexed'[e] + One(e \in lost') = indexed[e] + One(e \in lost) + 0
        /\ indexed'[e] \in Nat
    BY <1>1, <1>3, TermsTyped, SMTT(20)
  <2>6. One(e \in lost) \in Nat /\ indexed'[e] = indexed[e] /\ One(e \in lost') = One(e \in lost)
    BY <1>3 DEF One
  <2>7. /\ Cardinality(Occurrences(queue[e.q], e)) \in Nat
        /\ Cardinality(Holders(e)) \in Nat
        /\ indexed[e] \in Nat
    BY <1>0, TermsTyped
  <2>8. Total(e)' = Cardinality(Occurrences(queue'[e.q], e)) + Cardinality(Holders(e)')
                      + indexed'[e] + One(e \in lost')
    BY DEF Total
  <2>9. Total(e) = Cardinality(Occurrences(queue[e.q], e)) + Cardinality(Holders(e))
                     + indexed[e] + One(e \in lost)
    BY DEF Total
  <2> QED BY <2>1, <2>3, <2>4, <2>6, <2>7, <2>8, <2>9
<1> QED BY <1>3, <1>7, <1>8, SameTotals DEF OnceInv

\* A worker writes its event, or gives it up.
LEMMA IndexStep ==
  ASSUME OnceInv, NEW s \in Sniffers, NEW q \in Queues, indexOk(s, q) \/ indexFailed(s, q)
  PROVE  OnceInv'
<1> PICK w \in Pairs : w = <<s, q>>
  BY DEF Pairs
<1> PICK d \in Events : d = busy[w]
  BY DEF OnceInv, StateType, indexOk, indexFailed
<1>1. StateType
  BY DEF OnceInv
<1>2. /\ busy' = [busy EXCEPT ![w] = None] /\ queue' = queue
      /\ stopped' = stopped /\ pc' = pc /\ Client' = Client /\ workers' = workers /\ count' = count
      /\ \/ indexed' = [indexed EXCEPT ![d] = @ + 1] /\ lost' = lost /\ silent' = silent
         \/ indexed' = indexed /\ lost' = lost \cup {d} /\ silent' \subseteq silent \cup {d}
  BY DEF indexOk, indexFailed
<1>3. d \notin lost
  <2>1. Cardinality(Holders(d)) >= 1
    <3>1. Cardinality(Holders(d)) = Cardinality(Holders(d)') + One(busy[w] = d)
      BY <1>1, <1>2, PutDown DEF StateType
    <3>2. Cardinality(Holders(d)') \in Nat
      BY HoldersFinitePrime
    <3> QED BY <3>1, <3>2 DEF One
  <2>2. Total(d) <= 1
    BY PlacesIsTotal DEF OnceInv, Once
  <2> QED BY <2>1, <2>2, <1>1, TermsTyped DEF Total, One
<1>4. StateType'
  <2>1. busy' \in [Pairs -> Events \cup {None}] /\ lost' \subseteq Events /\ silent' \subseteq lost'
    BY <1>1, <1>2 DEF StateType
  <2>2. indexed' \in [Events -> Nat]
    <3>1. CASE indexed' = indexed
      BY <3>1, <1>1 DEF StateType
    <3>2. CASE indexed' = [indexed EXCEPT ![d] = @ + 1]
      BY <3>2, <1>1 DEF StateType
    <3> QED BY <3>1, <3>2, <1>2
  <2> QED BY <2>1, <2>2, <1>1, <1>2 DEF StateType
<1>5. ASSUME NEW e \in Events PROVE Total(e)' = Total(e)
  <2>1. Cardinality(Holders(e)) = Cardinality(Holders(e)') + One(d = e)
    BY <1>1, <1>2, PutDown DEF StateType
  <2>2. indexed'[e] + One(e \in lost') = indexed[e] + One(e \in lost) + One(d = e)
    <3>1. indexed[e] \in Nat /\ indexed[d] \in Nat
      BY <1>1 DEF StateType
    <3>2. CASE indexed' = [indexed EXCEPT ![d] = @ + 1] /\ lost' = lost
      <4>1. indexed'[e] = indexed[e] + One(d = e)
        BY <3>1, <3>2, <1>1 DEF StateType, One
      <4> QED BY <4>1, <3>1, <3>2 DEF One
    <3>3. CASE indexed' = indexed /\ lost' = lost \cup {d}
      BY <3>1, <3>3, <1>3 DEF One
    <3> QED BY <3>2, <3>3, <1>2
  <2>3. One(d = e) \in Nat /\ 0 \in Int /\ 0 - One(d = e) \in Int
    BY DEF One
  <2>4. /\ Cardinality(Occurrences(queue'[e.q], e)) = Cardinality(Occurrences(queue[e.q], e)) + 0
        /\ Cardinality(Holders(e)') = Cardinality(Holders(e)) + (0 - One(d = e))
        /\ indexed'[e] \in Nat
    <3>1. queue'[e.q] = queue[e.q] /\ Cardinality(Occurrences(queue[e.q], e)) \in Nat
      BY <1>1, <1>2, TermsTyped
    <3>2. Cardinality(Holders(e)') \in Nat /\ indexed'[e] \in Nat
      BY <1>4, HoldersFinitePrime DEF StateType
    <3> QED BY <3>1, <3>2, <2>1, <2>3
  <2>5. Total(e)' = Total(e) + (0 + (0 - One(d = e)) + One(d = e))
    BY <2>2, <2>3, <2>4, <1>1, TotalChange, SMTT(20)
  <2> QED BY <2>3, <2>5, <1>1, TotalInt
<1> QED BY <1>2, <1>4, <1>5, SameTotals DEF OnceInv

LEMMA Stutter ==
  ASSUME OnceInv, UNCHANGED vars
  PROVE  OnceInv'
<1>1. StateType'
  BY DEF OnceInv, StateType, vars
<1>2. Once'
  BY SameTotals DEF Total, Holders, vars
<1> QED BY <1>1, <1>2 DEF OnceInv

LEMMA NextStep == OnceInv /\ [Next]_vars => OnceInv'
BY ControlStep, LogStep, ReceiveStep, IndexStep, Stutter DEF Next

-----------------------------------------------------------------------------
(* What is dropped in silence. The client is set before a worker starts and *)
(* before the sniffer that sets it logs anything.                           *)

Silence ==
  /\ \A s \in Sniffers : pc[s] = "connected" => Client
  /\ \A q \in Queues : \A s \in workers[q] : Client /\ pc[s] = "running"
  /\ \A s \in Sniffers, q \in Queues : busy[<<s, q>>] # None => s \in workers[q]
  /\ \A e \in silent : pc[e.by] = "running" /\ \A q \in Queues : e.by \notin workers[q]

LEMMA SilenceInit == Init => Silence
<1> SUFFICES ASSUME Init PROVE Silence
  OBVIOUS
<1>1. \A s \in Sniffers, q \in Queues : busy[<<s, q>>] = None
  BY DEF Init
<1> QED BY <1>1 DEF Init, Silence

LEMMA SilenceStep ==
  ASSUME StateType, Silence, [Next]_vars
  PROVE  Silence'
<1>1. CASE UNCHANGED vars \/ Stop
  BY <1>1 DEF Silence, vars, Stop
<1>2. ASSUME NEW s \in Sniffers, InitFails(s) \/ InitConnects(s) PROVE Silence'
  <2>1. pc[s] = "init" /\ pc' = [pc EXCEPT ![s] = pc'[s]] /\ Client \in BOOLEAN /\ (Client => Client')
    BY <1>2 DEF StateType, InitFails, InitConnects
  <2>2. \A t \in Sniffers \ {s} : pc'[t] = pc[t]
    BY <2>1 DEF StateType
  <2>3. workers' = workers /\ busy' = busy /\ silent' = silent /\ (pc'[s] = "connected" => Client')
    BY <1>2 DEF StateType, InitFails, InitConnects
  <2>4. \A q \in Queues : workers[q] \subseteq Sniffers
    BY DEF StateType
  <2>5. \A e \in silent : e.by \in Sniffers
    BY DEF StateType, Events
  <2> QED BY <2>1, <2>2, <2>3, <2>4, <2>5 DEF Silence
<1>3. ASSUME NEW s \in Sniffers, startWorkers(s) PROVE Silence'
  <2>1. /\ pc[s] = "connected" /\ pc'[s] = "running" /\ \A t \in Sniffers \ {s} : pc'[t] = pc[t]
        /\ \A q \in Queues : workers'[q] = workers[q] \cup {s}
        /\ Client' = Client /\ busy' = busy /\ silent' = silent
    BY <1>3 DEF StateType, startWorkers
  <2>2. \A e \in silent : e.by \in Sniffers /\ e.by # s
    BY <2>1 DEF Silence, StateType, Events
  <2>3. \A q \in Queues : workers[q] \subseteq Sniffers
    BY DEF StateType
  <2> QED BY <2>1, <2>2, <2>3 DEF Silence
<1>4. ASSUME NEW s \in Sniffers, NEW q \in Queues, Log(s, q) PROVE Silence'
  <2>1. PICK d : d.by = s /\ enqueue(d)
    BY <1>4 DEF Log
  <2>2. pc[s] = "running" /\ pc' = pc /\ Client' = Client /\ workers' = workers /\ busy' = busy
    BY <1>4 DEF Log
  <2>3. silent' = silent \/ (~Client /\ silent' = silent \cup {d})
    BY <2>1 DEF enqueue, DropSilently
  <2> QED BY <2>1, <2>2, <2>3 DEF Silence
<1>5. ASSUME NEW s \in Sniffers, NEW q \in Queues, Receive(s, q) PROVE Silence'
  <2>1. /\ s \in workers[q] /\ busy' = [busy EXCEPT ![<<s, q>>] = Head(queue[q])]
        /\ pc' = pc /\ Client' = Client /\ workers' = workers /\ silent' = silent
    BY <1>5 DEF Receive
  <2>2. \A t \in Sniffers, r \in Queues : t # s \/ r # q => busy'[<<t, r>>] = busy[<<t, r>>]
    BY <2>1 DEF StateType, Pairs
  <2> QED BY <2>1, <2>2 DEF Silence
<1>6. ASSUME NEW s \in Sniffers, NEW q \in Queues, indexOk(s, q) \/ indexFailed(s, q)
      PROVE  Silence'
  <2>1. /\ busy[<<s, q>>] # None /\ busy' = [busy EXCEPT ![<<s, q>>] = None]
        /\ pc' = pc /\ Client' = Client /\ workers' = workers
    BY <1>6 DEF indexOk, indexFailed
  <2>2. Client
    BY <2>1 DEF Silence
  <2>3. silent' = silent
    BY <1>6, <2>2 DEF indexOk, indexFailed
  <2>4. \A t \in Sniffers, r \in Queues : busy'[<<t, r>>] \in {None, busy[<<t, r>>]}
    BY <2>1 DEF StateType, Pairs
  <2> QED BY <2>1, <2>3, <2>4 DEF Silence
<1> QED BY <1>1, <1>2, <1>3, <1>4, <1>5, <1>6 DEF Next

IInv == OnceInv /\ Silence

LEMMA InvariantStep == IInv /\ [Next]_vars => IInv'
BY NextStep, SilenceStep DEF IInv, OnceInv

-----------------------------------------------------------------------------
(* The theorems.                                                            *)

\* The types of the queues and of the workers, the one place of every event, and the
\* client that is set before a worker starts, are kept together by every step of internal/logger.
THEOREM LoggerInvariant == Spec => []IInv
<1>1. Init => IInv
  BY InitInvariant, SilenceInit DEF IInv
<1> QED BY <1>1, InvariantStep, PTL DEF Spec

LEMMA TypeFromInvariant == IInv => TypeOK
<1> SUFFICES ASSUME StateType PROVE TypeOK
  BY DEF IInv, OnceInv
<1>1. ASSUME NEW q \in Queues, NEW e \in SetOf(queue[q]) PROVE e \in Events /\ e.q = q
  BY DEF StateType, SetOf
<1> QED BY <1>1 DEF StateType, TypeOK, Pairs

\* The queues of internal/logger hold no more than their capacity, and an event
\* is only ever in the queue that it was logged to.
THEOREM LoggerTypeCorrect == Spec => []TypeOK
BY LoggerInvariant, TypeFromInvariant, PTL

\* Whatever number of sniffers and of workers there are, and whenever the client
\* is set or a queue is full, every event that was logged is waiting, being
\* indexed, written or given up, in one of these only and once only; it is given
\* up in silence only when its sniffer has started no workers.
THEOREM EventsAreLoggedOnce == Spec => []EachEventOnce
<1>1. IInv => EachEventOnce
  BY DEF IInv, OnceInv, Once, Silence, EachEventOnce
<1> QED BY <1>1, LoggerInvariant, PTL

-----------------------------------------------------------------------------
(* The log: a sniffer that handles messages is a sniffer that logs.         *)

LEMMA LogsOrRests == ASSUME PipelineNext PROVE [Next]_vars
<1>1. {"events", "detections"} \subseteq Queues
  BY PipelineAssumption
<1>2. ASSUME NEW s \in Sniffers, Handle(s) PROVE [Next]_vars
  <2>1. CASE LogDetection(s)
    BY <2>1, <1>1 DEF LogDetection, Next
  <2>2. CASE LogMessage(s)
    BY <2>2, <1>1 DEF LogMessage, Next
  <2>3. CASE NothingDetected(s) \/ DecideKnown(s) \/ DecideNew(s) \/ DecideStored(s)
             \/ AddBlockedOk(s) \/ AddBlockedError(s)
    BY <2>3 DEF NothingDetected, DecideKnown, DecideNew, DecideStored, AddBlockedOk, AddBlockedError
  <2> QED BY <1>2, <2>1, <2>2, <2>3 DEF Handle
<1>3. ASSUME NEW s \in Sniffers, FatalRace(s) PROVE Next
  BY <1>3 DEF FatalRace, Next
<1>4. ASSUME NEW s \in Sniffers, Logging(s) PROVE Next
  BY <1>4 DEF Logging, Next
<1> QED BY <1>2, <1>3, <1>4 DEF PipelineNext, Next

\* The two sniffers, with all that they do to a message before and between their
\* calls of internal/logger, use the log the way that module Logger says.
THEOREM PipelineRefinesLogger == PipelineSpec => Spec
<1>1. PipelineInit => Init
  BY DEF PipelineInit
<1>2. [PipelineNext]_allVars => [Next]_vars
  BY LogsOrRests DEF allVars
<1> QED BY <1>1, <1>2, PTL DEF PipelineSpec, Spec

\* So no event of a sniffer is written twice, and none of one that reached
\* Elasticsearch is given up without a line in the log, whatever the other goroutines
\* do meanwhile.
THEOREM PipelineLogsOnce == PipelineSpec => [](TypeOK /\ EachEventOnce)
BY PipelineRefinesLogger, LoggerTypeCorrect, EventsAreLoggedOnce, PTL

-----------------------------------------------------------------------------
(* The policy: what a sniffer that is on its way to the log owes.           *)

Labels == {"next", "detected", "storing", "block", "log"}
InHand(s) == Head(inbox[s])
Detected(s) == InHand(s).dir = "request" /\ Detections(s, InHand(s)) # {}

PipelineType ==
  /\ inbox \in [Sniffers -> Seq(Messages)]
  /\ at \in [Sniffers -> Labels]
  /\ clients \in [Addresses -> Nat \cup {None}]

\* Between a detection and the block the message in hand is that which was detected;
\* when the sniffer reaches the log the client is dealt with.
Owed(s) ==
  /\ at[s] \in {"detected", "storing", "block"} => Detected(s)
  /\ at[s] = "log" /\ Detected(s) => InHand(s).client \in blocked \cup refused

PolicyInv == PipelineType /\ (\A s \in Sniffers : Owed(s)) /\ DetectionsAct

LEMMA PolicyInit == PipelineInit => PolicyInv
<1> SUFFICES ASSUME PipelineInit PROVE PolicyInv
  OBVIOUS
<1>1. PipelineType
  BY PipelineAssumption DEF PipelineInit, PipelineType, Labels
<1>2. \A s \in Sniffers : Owed(s)
  BY DEF PipelineInit, Owed
<1>3. DetectionsAct
  BY DEF PipelineInit, DetectionsAct
<1> QED BY <1>1, <1>2, <1>3 DEF PolicyInv

\* What a sniffer holds, and what the first message tells of it.
LEMMA InHandIsAMessage ==
  ASSUME PipelineType, NEW s \in Sniffers, inbox[s] # <<>>
  PROVE  InHand(s) \in Messages /\ InHand(s).client \in Addresses /\ Tail(inbox[s]) \in Seq(Messages)
<1>1. inbox[s] \in Seq(Messages)
  BY DEF PipelineType
<1>2. InHand(s) \in Messages /\ Tail(inbox[s]) \in Seq(Messages)
  BY <1>1 DEF InHand
<1> QED BY <1>2 DEF Addresses

\* A step of one sniffer that keeps its message leaves what the others owe.
LEMMA MovesOn ==
  ASSUME PolicyInv, NEW s \in Sniffers, NEW label \in Labels,
         inbox' = inbox, Goto(s, label), handled' = handled,
         blocked \subseteq blocked', refused \subseteq refused',
         clients' \in [Addresses -> Nat \cup {None}],
         label \in {"detected", "storing", "block"} => Detected(s),
         label = "log" /\ Detected(s) => InHand(s).client \in blocked' \cup refused'
  PROVE  PolicyInv'
<1>1. PipelineType'
  BY DEF PolicyInv, PipelineType, Goto
<1>2. ASSUME NEW t \in Sniffers PROVE Owed(t)'
  <2>1. InHand(t)' = InHand(t) /\ (Detected(t)' <=> Detected(t))
    BY DEF InHand, Detected
  <2>2. at'[t] = IF t = s THEN label ELSE at[t]
    BY DEF PolicyInv, PipelineType, Goto
  <2>3. CASE t = s
    BY <2>1, <2>2, <2>3 DEF Owed
  <2>4. CASE t # s
    <3>1. Owed(t)
      BY DEF PolicyInv
    <3> QED BY <3>1, <2>1, <2>2, <2>4 DEF Owed
  <2> QED BY <2>3, <2>4
<1>3. DetectionsAct'
  BY DEF PolicyInv, DetectionsAct
<1> QED BY <1>1, <1>2, <1>3 DEF PolicyInv

LEMMA BeforeDecide ==
  ASSUME PolicyInv, NEW s \in Sniffers, NothingDetected(s) \/ LogDetection(s) \/ DecideNew(s)
  PROVE  PolicyInv'
<1>1. clients \in [Addresses -> Nat \cup {None}] /\ Owed(s)
  BY DEF PolicyInv, PipelineType
<1>2. CASE NothingDetected(s)
  <2>1. ~Detected(s)
    BY <1>2 DEF NothingDetected, Detected, InHand
  <2> QED BY <2>1, <1>1, <1>2, MovesOn DEF NothingDetected, Labels
<1>3. CASE LogDetection(s)
  <2>1. Detected(s)
    BY <1>3 DEF LogDetection, Detected, InHand
  <2> QED BY <2>1, <1>1, <1>3, MovesOn DEF LogDetection, Labels
<1>4. CASE DecideNew(s)
  <2>1. Detected(s)
    BY <1>1, <1>4 DEF DecideNew, At, Owed
  <2> QED BY <2>1, <1>1, <1>4, MovesOn DEF DecideNew, Labels
<1> QED BY <1>2, <1>3, <1>4

\* A score that is counted reaches the limit at once, even when an addition of the
\* other goroutine is lost with the state that this one replaces.
LEMMA DecideBlocks ==
  ASSUME PolicyInv, NEW s \in Sniffers, DecideKnown(s) \/ DecideStored(s)
  PROVE  PolicyInv'
<1>1. /\ clients \in [Addresses -> Nat \cup {None}] /\ inbox[s] # <<>>
      /\ Owed(s) /\ at[s] \in {"detected", "storing"}
  BY DEF PolicyInv, PipelineType, DecideKnown, DecideStored, At
<1>2. Detected(s) /\ InHand(s).client \in Addresses
  BY <1>1, InHandIsAMessage DEF Owed, PolicyInv
<1>3. CASE DecideKnown(s)
  <2>1. clients[InHand(s).client] \in Nat
    BY <1>1, <1>2, <1>3 DEF DecideKnown, InHand
  <2>2. PICK total \in Nat : total = clients[InHand(s).client] + Score
    BY <2>1, PipelineAssumption
  <2>3. total >= Limit
    BY <2>1, <2>2, PipelineAssumption
  <2>4. clients' = [clients EXCEPT ![InHand(s).client] = total]
    BY <1>3, <2>2 DEF DecideKnown, InHand
  <2>5. Goto(s, "block")
    BY <1>3, <2>2, <2>3 DEF DecideKnown, Decided, InHand
  <2>6. clients' \in [Addresses -> Nat \cup {None}]
    BY <1>1, <2>4
  <2> QED BY <1>2, <1>3, <2>5, <2>6, MovesOn DEF DecideKnown, Labels
<1>4. CASE DecideStored(s)
  <2>1. clients' \in [Addresses -> Nat \cup {None}]
    BY <1>1, <1>4, PipelineAssumption DEF DecideStored
  <2>2. Goto(s, "block")
    BY <1>4, PipelineAssumption DEF DecideStored, Decided
  <2> QED BY <1>2, <1>4, <2>1, <2>2, MovesOn DEF DecideStored, Labels
<1> QED BY <1>3, <1>4

LEMMA AddBlockedStep ==
  ASSUME PolicyInv, NEW s \in Sniffers, AddBlockedOk(s) \/ AddBlockedError(s)
  PROVE  PolicyInv'
<1>1. clients \in [Addresses -> Nat \cup {None}]
  BY DEF PolicyInv, PipelineType
<1>2. InHand(s).client \in blocked' \cup refused' /\ blocked \subseteq blocked' /\ refused \subseteq refused'
  BY DEF AddBlockedOk, AddBlockedError, InHand
<1>3. inbox' = inbox /\ Goto(s, "log") /\ handled' = handled /\ clients' = clients
  BY DEF AddBlockedOk, AddBlockedError
<1> QED BY <1>1, <1>2, <1>3, MovesOn DEF Labels

\* Whoever is dealt with when the log is written stays so.
LEMMA LogMessageStep ==
  ASSUME PolicyInv, NEW s \in Sniffers, LogMessage(s)
  PROVE  PolicyInv'
<1>1. /\ inbox' = [inbox EXCEPT ![s] = Tail(@)] /\ Goto(s, "next") /\ inbox[s] # <<>> /\ at[s] = "log"
      /\ handled' = IF InHand(s).dir = "request" THEN handled \cup {<<s, InHand(s)>>} ELSE handled
      /\ clients' = clients /\ blocked' = blocked /\ refused' = refused
  BY DEF LogMessage, At, InHand
<1>2. PipelineType'
  BY <1>1, InHandIsAMessage DEF PolicyInv, PipelineType, Goto, Labels
<1>3. ASSUME NEW t \in Sniffers PROVE Owed(t)'
  <2>1. CASE t = s
    BY <2>1, <1>1 DEF Owed, Goto, PolicyInv, PipelineType
  <2>2. CASE t # s
    <3>1. inbox'[t] = inbox[t] /\ at'[t] = at[t] /\ Owed(t)
      BY <2>2, <1>1 DEF PolicyInv, PipelineType, Goto
    <3> QED BY <3>1, <1>1 DEF Owed, Detected, InHand
  <2> QED BY <2>1, <2>2
<1>4. DetectionsAct'
  <2>1. Owed(s)
    BY DEF PolicyInv
  <2> SUFFICES ASSUME NEW h \in handled', Detections(h[1], h[2]) # {}
               PROVE  h[2].client \in blocked \cup refused
    BY <1>1 DEF DetectionsAct
  <2>2. CASE h \in handled
    BY <2>2 DEF PolicyInv, DetectionsAct
  <2>3. CASE h = <<s, InHand(s)>> /\ InHand(s).dir = "request"
    BY <2>1, <2>3, <1>1 DEF Owed, Detected
  <2> QED BY <1>1, <2>2, <2>3
<1> QED BY <1>2, <1>3, <1>4 DEF PolicyInv

LEMMA PolicyStep == PolicyInv /\ [PipelineNext]_allVars => PolicyInv'
<1> SUFFICES ASSUME PolicyInv, [PipelineNext]_allVars PROVE PolicyInv'
  OBVIOUS
<1>1. ASSUME UNCHANGED pipelineVars PROVE PolicyInv'
  BY <1>1 DEF pipelineVars, PolicyInv, PipelineType, Owed, Detected, InHand, DetectionsAct
<1>2. CASE \E s \in Sniffers : Handle(s)
  BY <1>2, BeforeDecide, DecideBlocks, AddBlockedStep, LogMessageStep DEF Handle
<1> QED BY <1>1, <1>2 DEF PipelineNext, FatalRace, Logging, allVars

\* Whatever the two goroutines that count in the map of clients do to each other,
\* no request in which something was detected reaches the log before its client is
\* on the block list or AddBlocked has reported that it cannot be put there.
THEOREM DetectionsHaveConsequences == PipelineSpec => []DetectionsAct
<1>1. PolicyInv => DetectionsAct
  BY DEF PolicyInv
<1> QED BY <1>1, PolicyInit, PolicyStep, PTL DEF PipelineSpec

-----------------------------------------------------------------------------
(* Masking: trees are finite, so what is so of a tree whenever it is so of  *)
(* its parts is so of all. maskJSON and Subtrees are functions that call    *)
(* themselves for the parts; By joins them, to show once that such a        *)
(* function exists.                                                         *)

\* Among natural numbers one is the least.
LEMMA Least ==
  ASSUME NEW T, T \subseteq Nat, T # {}
  PROVE  \E m \in T : \A k \in T : m <= k
<1>1. PICK R : R = OpToRel(<, Nat)
  OBVIOUS
<1>2. IsWellFoundedOn(R, Nat)
  BY <1>1, NatLessThanWellFounded
<1>3. PICK x \in T : \A y \in T : ~ (<<y, x>> \in R)
  BY <1>2, WFMin
<1>4. ASSUME NEW k \in T PROVE x <= k
  <2>1. k \in Nat /\ x \in Nat
    OBVIOUS
  <2>2. ASSUME k < x PROVE <<k, x>> \in R
    <3>1. <<k, x>> \in Nat \X Nat /\ <<k, x>>[1] = k /\ <<k, x>>[2] = x
      BY <2>1
    <3> QED BY <3>1, <2>2, <1>1 DEF OpToRel
  <2> QED BY <2>1, <2>2, <1>3
<1> QED BY <1>4

\* Among some trees there is one none of whose parts is among them.
LEMMA Lowest ==
  ASSUME NEW T, T \subseteq JSON, T # {}
  PROVE  \E v \in T : Parts(v) \cap T = {}
<1>1. \A v \in JSON : Height[v] \in Nat
  BY JsonAssumption
<1>2. PICK H : H = {Height[v] : v \in T}
  OBVIOUS
<1>3. H \subseteq Nat /\ H # {}
  BY <1>1, <1>2
<1>4. PICK m \in H : \A k \in H : m <= k
  BY <1>3, Least
<1>5. PICK v \in T : Height[v] = m
  BY <1>2
<1>6. ASSUME NEW part \in Parts(v), part \in T PROVE FALSE
  <2>1. Height[part] < Height[v]
    BY JsonAssumption
  <2>2. Height[part] \in H /\ m <= Height[part]
    BY <1>2, <1>4, <1>6
  <2>3. m \in Nat /\ Height[part] \in Nat
    BY <1>1, <1>3, <1>6
  <2> QED BY <2>1, <2>2, <2>3, <1>5
<1> QED BY <1>6


\* What masking, and the collection of the subtrees, make of a tree of which f holds what
\* they make of the parts.
MaskedBy(v, f) ==
  CASE v.k = "object" ->
         [v EXCEPT !.fields = [key \in DOMAIN v.fields |->
            IF Lower(key) \in sensitiveFields THEN Redacted ELSE f[v.fields[key]]]]
    [] v.k = "array" -> [v EXCEPT !.items = [i \in DOMAIN v.items |-> f[v.items[i]]]]
    [] OTHER -> v
SubtreesBy(v, f) == {v} \cup UNION {f[part] : part \in Parts(v)}
By(which, v, f) == IF which = "mask" THEN MaskedBy(v, f) ELSE SubtreesBy(v, f)

\* Both look at a tree's own parts only.
LEMMA SameParts ==
  ASSUME NEW which, NEW v, NEW f, NEW g, \A part \in Parts(v) : f[part] = g[part]
  PROVE  By(which, v, f) = By(which, v, g)
<1>1. MaskedBy(v, f) = MaskedBy(v, g)
  <2>1. CASE v.k = "object"
    <3>1. \A key \in DOMAIN v.fields : v.fields[key] \in Parts(v)
      BY <2>1 DEF Parts
    <3>2. [key \in DOMAIN v.fields |->
             IF Lower(key) \in sensitiveFields THEN Redacted ELSE f[v.fields[key]]]
          = [key \in DOMAIN v.fields |->
               IF Lower(key) \in sensitiveFields THEN Redacted ELSE g[v.fields[key]]]
      BY <3>1
    <3> QED BY <2>1, <3>2 DEF MaskedBy
  <2>2. CASE v.k = "array"
    <3>1. \A i \in DOMAIN v.items : v.items[i] \in Parts(v)
      BY <2>2 DEF Parts
    <3>2. [i \in DOMAIN v.items |-> f[v.items[i]]] = [i \in DOMAIN v.items |-> g[v.items[i]]]
      BY <3>1
    <3> QED BY <2>2, <3>2 DEF MaskedBy
  <2>3. CASE v.k # "object" /\ v.k # "array"
    BY <2>3 DEF MaskedBy
  <2> QED BY <2>1, <2>2, <2>3
<1>2. SubtreesBy(v, f) = SubtreesBy(v, g)
  <2>1. {f[part] : part \in Parts(v)} = {g[part] : part \in Parts(v)}
    OBVIOUS
  <2> QED BY <2>1 DEF SubtreesBy
<1> QED BY <1>1, <1>2 DEF By

\* A part of the recursion: on trees S, with all their parts.
Attempt(which, S, f) ==
  /\ S \subseteq JSON
  /\ \A v \in S : Parts(v) \subseteq S
  /\ f = [v \in S |-> By(which, v, f)]

\* On what two of them reach they do not differ.
LEMMA AttemptsAgree ==
  ASSUME NEW which, NEW S, NEW f, NEW T, NEW g, Attempt(which, S, f), Attempt(which, T, g)
  PROVE  \A v \in S \cap T : f[v] = g[v]
<1>a. PICK D : D = {v \in S \cap T : f[v] # g[v]}
  OBVIOUS
<1>1. ASSUME D # {} PROVE FALSE
  <2>1. PICK v \in D : Parts(v) \cap D = {}
    BY <1>a, <1>1, Lowest DEF Attempt
  <2>2. \A part \in Parts(v) : f[part] = g[part]
    BY <1>a, <2>1 DEF Attempt
  <2>3. By(which, v, f) = By(which, v, g)
    BY <2>2, SameParts
  <2>4. f[v] = By(which, v, f) /\ g[v] = By(which, v, g)
    <3>1. v \in S /\ v \in T
      BY <1>a, <2>1
    <3> QED BY <3>1 DEF Attempt
  <2> QED BY <1>a, <2>1, <2>3, <2>4
<1> QED BY <1>a, <1>1

\* The recursion reaches every tree.
LEMMA Recursion ==
  ASSUME NEW which
  PROVE  \E f : f = [v \in JSON |-> By(which, v, f)]
<1>a. PICK D : D = {v \in JSON : \E S, f : Attempt(which, S, f) /\ v \in S}
  OBVIOUS
<1>b. PICK F : F = [v \in D |-> (CHOOSE f : \E S : Attempt(which, S, f) /\ v \in S)[v]]
  OBVIOUS
<1>1. ASSUME NEW S, NEW f, Attempt(which, S, f), NEW v \in S PROVE v \in D /\ F[v] = f[v]
  <2>1. v \in D
    BY <1>a, <1>1 DEF Attempt
  <2>2. PICK g : g = CHOOSE h : \E T : Attempt(which, T, h) /\ v \in T
    OBVIOUS
  <2>3. \E T : Attempt(which, T, g) /\ v \in T
    BY <1>1, <2>2
  <2>4. g[v] = f[v]
    BY <1>1, <2>3, AttemptsAgree
  <2> QED BY <1>b, <2>1, <2>2, <2>4
<1>2. ASSUME NEW v \in D PROVE Parts(v) \subseteq D /\ F[v] = By(which, v, F)
  <2>1. PICK S, f : Attempt(which, S, f) /\ v \in S
    BY <1>a
  <2>2. \A part \in Parts(v) : part \in S
    BY <2>1 DEF Attempt
  <2>3. \A part \in Parts(v) : part \in D /\ F[part] = f[part]
    BY <1>1, <2>1, <2>2
  <2>4. \A part \in Parts(v) : F[part] = f[part]
    BY <2>3
  <2>5. By(which, v, F) = By(which, v, f)
    BY <2>4, SameParts
  <2>6. f[v] = By(which, v, f)
    BY <2>1 DEF Attempt
  <2>7. F[v] = f[v]
    BY <1>1, <2>1
  <2> QED BY <2>3, <2>5, <2>6, <2>7
<1>3. F = [v \in D |-> By(which, v, F)]
  BY <1>b, <1>2
<1>4. ASSUME D # JSON PROVE FALSE
  <2>1. PICK v \in JSON \ D : Parts(v) \cap (JSON \ D) = {}
    BY <1>a, <1>4, Lowest
  <2>2. Parts(v) \subseteq D
    BY <2>1, JsonAssumption
  <2>3. PICK g : g = [w \in D \cup {v} |-> By(which, w, F)]
    OBVIOUS
  <2>4. \A w \in D : g[w] = F[w]
    BY <2>3, <1>2
  <2>5. \A w \in D \cup {v} : Parts(w) \subseteq D
    BY <2>2, <1>2
  <2>6. \A w \in D \cup {v} : By(which, w, F) = By(which, w, g)
    BY <2>4, <2>5, SameParts
  <2>7. g = [w \in D \cup {v} |-> By(which, w, g)]
    BY <2>3, <2>6
  <2>8. Attempt(which, D \cup {v}, g)
    BY <1>a, <2>1, <2>5, <2>7 DEF Attempt
  <2> QED BY <1>a, <2>1, <2>8
<1> QED BY <1>3, <1>4

\* So the two functions are what their definitions say.
LEMMA MaskUnfolds == maskJSON = [v \in JSON |-> MaskedBy(v, maskJSON)]
<1>1. maskJSON = CHOOSE f : f = [v \in JSON |-> MaskedBy(v, f)]
  BY DEF maskJSON, MaskedBy
<1>2. \A f : [v \in JSON |-> By("mask", v, f)] = [v \in JSON |-> MaskedBy(v, f)]
  BY DEF By
<1>3. PICK f : f = [v \in JSON |-> By("mask", v, f)]
  BY Recursion
<1>4. f = [v \in JSON |-> MaskedBy(v, f)]
  BY <1>2, <1>3
<1> QED BY <1>1, <1>4

LEMMA SubtreesUnfold == Subtrees = [v \in JSON |-> SubtreesBy(v, Subtrees)]
<1>1. Subtrees = CHOOSE f : f = [v \in JSON |-> SubtreesBy(v, f)]
  BY DEF Subtrees, SubtreesBy
<1>2. \A f : [v \in JSON |-> By("subtrees", v, f)] = [v \in JSON |-> SubtreesBy(v, f)]
  BY DEF By
<1>3. PICK f : f = [v \in JSON |-> By("subtrees", v, f)]
  BY Recursion
<1>4. f = [v \in JSON |-> SubtreesBy(v, f)]
  BY <1>2, <1>3
<1> QED BY <1>1, <1>4

\* A field whose name says that it is secret shows nothing.
Hides(v) ==
  v.k = "object" =>
    \A key \in DOMAIN v.fields : Lower(key) \in sensitiveFields => v.fields[key] = Redacted

LEMMA SubtreesOf ==
  ASSUME NEW v \in JSON
  PROVE  Subtrees[v] = {v} \cup UNION {Subtrees[part] : part \in Parts(v)}
BY SubtreesUnfold DEF SubtreesBy

LEMMA RedactedIsALeaf == Subtrees[Redacted] = {Redacted} /\ Hides(Redacted)
<1>1. Redacted \in JSON /\ Redacted.k = "redacted"
  BY JsonAssumption DEF Redacted
<1>2. Parts(Redacted) = {}
  BY <1>1 DEF Parts
<1> QED BY <1>1, <1>2, SubtreesOf DEF Hides

\* What masking leaves of a tree, and what the parts of that are.
LEMMA MaskedTree ==
  ASSUME NEW v \in JSON
  PROVE  /\ Hides(maskJSON[v])
         /\ \A p \in Parts(maskJSON[v]) :
              p = Redacted \/ \E part \in Parts(v) : p = maskJSON[part]
<1>1. maskJSON[v] = MaskedBy(v, maskJSON)
  BY MaskUnfolds
<1>2. "k" \in DOMAIN v
  BY JsonAssumption
<1>3. CASE v.k = "object"
  <2>1. "fields" \in DOMAIN v
    BY <1>3, JsonAssumption
  <2>2. PICK fs : fs = [key \in DOMAIN v.fields |->
          IF Lower(key) \in sensitiveFields THEN Redacted ELSE maskJSON[v.fields[key]]]
    OBVIOUS
  <2>3. maskJSON[v] = [v EXCEPT !.fields = fs]
    BY <1>1, <1>3, <2>2 DEF MaskedBy
  <2>4. maskJSON[v].k = "object" /\ maskJSON[v].fields = fs
    BY <1>2, <1>3, <2>1, <2>3
  <2>5. Hides(maskJSON[v])
    BY <2>2, <2>4 DEF Hides
  <2>6. ASSUME NEW p \in Parts(maskJSON[v])
        PROVE  p = Redacted \/ \E part \in Parts(v) : p = maskJSON[part]
    <3>1. PICK key \in DOMAIN v.fields : p = fs[key]
      BY <2>2, <2>4, <2>6 DEF Parts
    <3>2. v.fields[key] \in Parts(v)
      BY <1>3 DEF Parts
    <3> QED BY <2>2, <3>1, <3>2
  <2> QED BY <2>5, <2>6
<1>4. CASE v.k = "array"
  <2>1. "items" \in DOMAIN v
    BY <1>4, JsonAssumption
  <2>2. PICK is : is = [i \in DOMAIN v.items |-> maskJSON[v.items[i]]]
    OBVIOUS
  <2>3. maskJSON[v] = [v EXCEPT !.items = is]
    BY <1>1, <1>4, <2>2 DEF MaskedBy
  <2>4. maskJSON[v].k = "array" /\ maskJSON[v].items = is
    BY <1>2, <1>4, <2>1, <2>3
  <2>5. Hides(maskJSON[v])
    BY <2>4 DEF Hides
  <2>6. ASSUME NEW p \in Parts(maskJSON[v])
        PROVE  \E part \in Parts(v) : p = maskJSON[part]
    <3>1. PICK i \in DOMAIN v.items : p = is[i]
      BY <2>2, <2>4, <2>6 DEF Parts
    <3>2. v.items[i] \in Parts(v)
      BY <1>4 DEF Parts
    <3> QED BY <2>2, <3>1, <3>2
  <2> QED BY <2>5, <2>6
<1>5. CASE v.k # "object" /\ v.k # "array"
  <2>1. maskJSON[v] = v
    BY <1>1, <1>5 DEF MaskedBy
  <2> QED BY <1>5, <2>1 DEF Parts, Hides
<1> QED BY <1>3, <1>4, <1>5

\* No field with a secret name is left at any depth of a tree that maskJSON has been
\* through (maskJSON calls itself for the values that it keeps).
THEOREM MaskingReachesEveryDepth == \A v \in JSON : \A w \in Subtrees[maskJSON[v]] : Hides(w)
<1>a. PICK T : T = {v \in JSON : \E w \in Subtrees[maskJSON[v]] : ~Hides(w)}
  OBVIOUS
<1>1. ASSUME T # {} PROVE FALSE
  <2>1. PICK v \in T : Parts(v) \cap T = {}
    BY <1>a, <1>1, Lowest
  <2>2. v \in JSON /\ maskJSON[v] \in JSON /\ Parts(v) \subseteq JSON
    BY <1>a, JsonAssumption, MaskingAssumption
  <2>3. ASSUME NEW part \in Parts(v), NEW w \in Subtrees[maskJSON[part]] PROVE Hides(w)
    BY <1>a, <2>1, <2>2
  <2>4. ASSUME NEW w \in Subtrees[maskJSON[v]] PROVE Hides(w)
    <3>1. w = maskJSON[v] \/ \E p \in Parts(maskJSON[v]) : w \in Subtrees[p]
      BY <2>2, <2>4, SubtreesOf
    <3>2. ASSUME NEW p \in Parts(maskJSON[v]), w \in Subtrees[p] PROVE Hides(w)
      <4>1. CASE p = Redacted
        BY <3>2, <4>1, RedactedIsALeaf
      <4>2. ASSUME NEW part \in Parts(v), p = maskJSON[part] PROVE Hides(w)
        BY <2>3, <3>2, <4>2
      <4> QED BY <2>2, <4>1, <4>2, MaskedTree
    <3> QED BY <2>2, <3>1, <3>2, MaskedTree
  <2> QED BY <1>a, <2>4
<1> QED BY <1>a, <1>1

\* MaskRequest and MaskResponse leave nothing that is secret in the headers and the body.
LEMMA MaskedShowsThePath ==
  ASSUME NEW m, {"path", "headers", "body"} \subseteq DOMAIN m,
         \A h \in m.headers : {"name", "value"} \subseteq DOMAIN h,
         IsBody(m.body)
  PROVE  Shown(Masked(m)) \subseteq {"path"}
<1>1. PICK d : d = Masked(m)
  OBVIOUS
<1>2. d.headers = maskHeaders(m.headers) /\ d.body = maskBody(m.body)
  BY <1>1 DEF Masked
<1>3. ASSUME NEW h \in d.headers, Lower(h.name) \in sensitiveHeaders PROVE h.value = Redacted
  <2>1. PICK g \in m.headers :
          h = [g EXCEPT !.value = IF Lower(g.name) \in sensitiveHeaders THEN Redacted ELSE @]
    BY <1>2 DEF maskHeaders
  <2>2. h.name = g.name
    BY <2>1
  <2> QED BY <1>3, <2>1, <2>2
<1>4. ASSUME d.body.k = "json",
             NEW v \in Subtrees[d.body.tree], v.k = "object",
             NEW key \in DOMAIN v.fields, Lower(key) \in sensitiveFields
      PROVE  v.fields[key] = Redacted
  <2>1. m.body.k = "json"
    BY <1>2, <1>4 DEF maskBody, IsBody
  <2>2. d.body.tree = maskJSON[m.body.tree] /\ m.body.tree \in JSON
    BY <1>2, <2>1 DEF maskBody, IsBody
  <2>3. Hides(v)
    BY <1>4, <2>2, MaskingReachesEveryDepth
  <2> QED BY <1>4, <2>3 DEF Hides
<1>5. ASSUME d.body.k = "text" PROVE d.body.pieces \cap plaintextPatterns = {}
  <2>1. m.body.k = "text"
    BY <1>2, <1>5 DEF maskBody, IsBody
  <2>2. d.body.pieces = maskPlaintext(m.body.pieces)
    BY <1>2, <2>1 DEF maskBody, IsBody
  <2> QED BY <2>2 DEF maskPlaintext
<1>6. ~ShowsInHeaders(d)
  BY <1>3 DEF ShowsInHeaders
<1>7. ~ShowsInBody(d)
  BY <1>4, <1>5 DEF ShowsInBody
<1> QED BY <1>1, <1>6, <1>7 DEF Shown

LEMMA DocumentsShowThePath ==
  ASSUME NEW s, NEW m, IsMessage(m)
  PROVE  Shown(Document(s, m)) \subseteq {"path"}
<1>1. CASE s = Http3
  BY <1>1, MaskedShowsThePath DEF Document, IsMessage
<1>2. CASE s # Http3
  <2>1. PICK d : d = Decoded(m)
    OBVIOUS
  <2>2. /\ {"path", "headers", "body"} \subseteq DOMAIN d
        /\ d.headers = m.headers
        /\ d.body = decodeBody(m.body, m.encoding)
    BY <2>1 DEF Decoded, IsMessage
  <2>3. IsBody(decodeBody(m.body, m.encoding))
    <3>1. CASE decodeBody(m.body, m.encoding) = m.body
      BY <3>1 DEF IsMessage
    <3>2. CASE m.body.k = "packed" /\ decodeBody(m.body, m.encoding) = m.body.inner
      BY <3>2 DEF IsMessage
    <3>3. CASE decodeBody(m.body, m.encoding) = CutOff(m.body.inner)
      <4>1. IsBody(CutOff(m.body.inner))
        BY DEF IsBody, CutOff
      <4> QED BY <3>3, <4>1
    <3> QED BY <3>1, <3>2, <3>3 DEF decodeBody
  <2>4. Shown(Masked(d)) \subseteq {"path"}
    BY <2>2, <2>3, MaskedShowsThePath DEF IsMessage
  <2> QED BY <1>2, <2>1, <2>4 DEF Document
<1> QED BY <1>1, <1>2

LEMMA DetectionsShowThePath == ASSUME NEW m PROVE Shown(DetectionDocument(m)) \subseteq {"path"}
<1>1. PICK d : d = DetectionDocument(m)
  OBVIOUS
<1>2. d.headers = {} /\ d.body.k = "text" /\ d.body.pieces = {}
  BY <1>1 DEF DetectionDocument
<1>3. ~ShowsInHeaders(d) /\ ~ShowsInBody(d)
  BY <1>2 DEF ShowsInHeaders, ShowsInBody
<1> QED BY <1>1, <1>3 DEF Shown

\* For any messages, of any JSON trees, no document, of a request, a response or a
\* detection, shows a secret anywhere but in its path, which is logged as it came
\* (LogRequest, LogDetection): the headers are compared in lower case, maskJSON goes down
\* to every depth, and a body is decoded before it is masked (DecodeRequestBody,
\* DecodeResponseBody, MaskRequest, MaskResponse).
THEOREM OnlyPathsShowSecrets == PipelineSpec => []SecretsMasked
<1>1. PipelineInit => SecretsMasked
  BY DEF PipelineInit, SecretsMasked
<1>2. ASSUME PolicyInv, SecretsMasked, [PipelineNext]_allVars
      PROVE  SecretsMasked'
  <2>1. ASSUME NEW s \in Sniffers, LogMessage(s) PROVE SecretsMasked'
    <3>1. PICK m : m = Head(inbox[s])
      OBVIOUS
    <3>2. m \in Messages /\ documents' = documents \cup {Document(s, m)}
      BY <1>2, <2>1, <3>1, InHandIsAMessage DEF PolicyInv, LogMessage, At, InHand
    <3>3. Shown(Document(s, m)) \subseteq {"path"}
      BY <3>2, PipelineAssumption, DocumentsShowThePath
    <3> QED BY <1>2, <3>2, <3>3 DEF SecretsMasked
  <2>2. CASE documents' = documents
    BY <1>2, <2>2 DEF SecretsMasked
  <2>a. ASSUME NEW s \in Sniffers, LogDetection(s) PROVE SecretsMasked'
    <3>1. PICK m : documents' = documents \cup {DetectionDocument(m)}
      BY <2>a DEF LogDetection
    <3> QED BY <1>2, <3>1, DetectionsShowThePath DEF SecretsMasked
  <2>3. ASSUME NEW s \in Sniffers, Handle(s), ~LogMessage(s), ~LogDetection(s)
        PROVE  documents' = documents
    BY <2>3 DEF Handle, NothingDetected, DecideKnown, DecideNew, DecideStored,
                AddBlockedOk, AddBlockedError
  <2>4. ASSUME NEW s \in Sniffers, FatalRace(s) \/ Logging(s) PROVE documents' = documents
    BY <2>4 DEF FatalRace, Logging, pipelineVars
  <2>5. CASE Stop /\ UNCHANGED pipelineVars
    BY <2>2, <2>5 DEF pipelineVars
  <2>6. CASE UNCHANGED allVars
    BY <2>2, <2>6 DEF allVars, pipelineVars
  <2> QED BY <1>2, <2>1, <2>a, <2>2, <2>3, <2>4, <2>5, <2>6 DEF PipelineNext
<1> QED BY <1>1, <1>2, PolicyInit, PolicyStep, PTL DEF PipelineSpec

=============================================================================
