------------------------- MODULE TokenBucketProofs -------------------------
(* Proofs about TokenBucket, for any burst, token time and set of sources.  *)
EXTENDS TokenBucket, TLAPS

LEMMA NewTokensBound ==
  ASSUME NEW e \in Nat
  PROVE  /\ NewTokens(e) \in Nat
         /\ NewTokens(e) * NS_PER_TOKEN \in Nat
         /\ NewTokens(e) * NS_PER_TOKEN <= e
         /\ e < NewTokens(e) * NS_PER_TOKEN + NS_PER_TOKEN
BY BucketAssumption DEF NewTokens

LEMMA RefilledBound ==
  ASSUME NEW tok \in 0 .. BURST, NEW new \in Nat
  PROVE  Refilled(tok, new) \in 0 .. BURST /\ Refilled(tok, new) <= tok + new
BY BucketAssumption DEF Refilled, Smaller

\* What the credit invariant needs of multiplication by the token time.
LEMMA ScaledShift ==
  ASSUME NEW i \in Int, NEW j \in Int, NEW k \in Int, NEW l \in Int, NEW b \in Int,
         i <= j + k, j * NS_PER_TOKEN <= l - b
  PROVE  i * NS_PER_TOKEN <= (l + k * NS_PER_TOKEN) - b
<1>1. i * NS_PER_TOKEN <= j * NS_PER_TOKEN + k * NS_PER_TOKEN
  BY BucketAssumption
<1> QED
  BY <1>1, BucketAssumption

(* The inductive invariant: every token spent or left was in the first      *)
(* burst or has been paid for by the time between born and last (Paid), and *)
(* last is less than a token's time behind the packet decided last          *)
(* (Remainder).                                                             *)
Paid(s) == (admitted[s] + tokens[s] - BURST) * NS_PER_TOKEN <= last[s] - born[s]
Remainder(s) ==
  /\ last[s] <= prev[s] /\ prev[s] <= now
  /\ prev[s] < last[s] + NS_PER_TOKEN
IInv == TypeOK /\ \A s \in known : Paid(s) /\ Remainder(s)

LEMMA InitIInv == Init => IInv
BY BucketAssumption DEF Init, IInv, TypeOK

LEMMA FirstPacketStep ==
  ASSUME IInv, NEW s \in Sources, NEW t \in 0 .. now, NEW F \in SUBSET known,
         FirstPacket(s, t, F)
  PROVE  IInv'
<1>1. TypeOK'
  BY BucketAssumption DEF IInv, TypeOK, FirstPacket
<1>2. Paid(s)' /\ Remainder(s)'
  <2>1. /\ admitted'[s] = 1 /\ tokens'[s] = BURST - 1 /\ last'[s] = t /\ born'[s] = t
        /\ prev'[s] = t /\ now' = now
    BY DEF IInv, TypeOK, FirstPacket
  <2>2. (1 + (BURST - 1) - BURST) * NS_PER_TOKEN = 0
    BY BucketAssumption
  <2> QED
    BY <2>1, <2>2, BucketAssumption DEF Paid, Remainder, IInv, TypeOK
<1>3. ASSUME NEW r \in known', r # s PROVE Paid(r)' /\ Remainder(r)'
  <2>1. r \in known /\ Paid(r) /\ Remainder(r) /\ now' = now
    BY <1>3 DEF IInv, FirstPacket
  <2>2. /\ admitted'[r] = admitted[r] /\ tokens'[r] = tokens[r] /\ last'[r] = last[r]
        /\ born'[r] = born[r] /\ prev'[r] = prev[r]
    BY <1>3, <2>1 DEF IInv, TypeOK, FirstPacket
  <2> QED
    BY <2>1, <2>2 DEF Paid, Remainder
<1> QED
  BY <1>1, <1>2, <1>3 DEF IInv

LEMMA AdmitStep ==
  ASSUME IInv, NEW s \in Sources, NEW t \in 0 .. now, Admit(s, t)
  PROVE  IInv'
<1> DEFINE new == NewTokens(t - last[s])
           tok == Refilled(tokens[s], new)
<1>1. s \in known /\ t - last[s] \in Nat /\ Paid(s) /\ Remainder(s) /\ TypeOK
  BY DEF IInv, Admit, TypeOK
<1>2. /\ new \in Nat /\ new * NS_PER_TOKEN \in Nat
      /\ new * NS_PER_TOKEN <= t - last[s]
      /\ t - last[s] < new * NS_PER_TOKEN + NS_PER_TOKEN
  BY <1>1, NewTokensBound
<1>3. tok \in 0 .. BURST /\ tok > 0 /\ tok <= tokens[s] + new
  BY <1>1, <1>2, RefilledBound DEF Admit, TypeOK
<1>4. /\ tokens' = [tokens EXCEPT ![s] = tok - 1]
      /\ last' = [last EXCEPT ![s] = last[s] + new * NS_PER_TOKEN]
      /\ admitted' = [admitted EXCEPT ![s] = @ + 1]
      /\ prev' = [prev EXCEPT ![s] = t]
      /\ now' = now /\ known' = known /\ born' = born
  BY <1>1 DEF Admit, TypeOK
<1> HIDE DEF new, tok
<1>5. TypeOK'
  <2>1. last[s] + new * NS_PER_TOKEN \in Nat /\ tok - 1 \in 0 .. BURST /\ admitted[s] + 1 \in Nat
    BY <1>1, <1>2, <1>3, BucketAssumption DEF TypeOK
  <2> QED
    BY <1>1, <1>4, <2>1 DEF TypeOK
<1>6. /\ tokens'[s] = tok - 1 /\ last'[s] = last[s] + new * NS_PER_TOKEN
      /\ admitted'[s] = admitted[s] + 1 /\ prev'[s] = t /\ born'[s] = born[s]
  BY <1>1, <1>4 DEF TypeOK
<1>7. Paid(s)'
  <2> DEFINE i == admitted[s] + 1 + (tok - 1) - BURST
             j == admitted[s] + tokens[s] - BURST
  <2>1. /\ i \in Int /\ j \in Int /\ new \in Int /\ last[s] \in Int /\ born[s] \in Int
        /\ i <= j + new
    BY <1>1, <1>2, <1>3, BucketAssumption DEF TypeOK
  <2>2. j * NS_PER_TOKEN <= last[s] - born[s]
    BY <1>1 DEF Paid
  <2> HIDE DEF i, j
  <2>4. i * NS_PER_TOKEN <= (last[s] + new * NS_PER_TOKEN) - born[s]
    BY <2>1, <2>2, ScaledShift, Zenon
  <2> QED
    BY <1>6, <2>4 DEF Paid, i
<1>8. Remainder(s)'
  BY <1>1, <1>2, <1>4, <1>6, BucketAssumption DEF Remainder, TypeOK
<1>9. ASSUME NEW r \in known, r # s PROVE Paid(r)' /\ Remainder(r)'
  <2>1. /\ admitted'[r] = admitted[r] /\ tokens'[r] = tokens[r] /\ last'[r] = last[r]
        /\ born'[r] = born[r] /\ prev'[r] = prev[r]
    BY <1>1, <1>4, <1>9 DEF TypeOK
  <2>2. Paid(r) /\ Remainder(r)
    BY <1>9 DEF IInv
  <2> QED
    BY <1>4, <2>1, <2>2 DEF Paid, Remainder
<1> QED
  BY <1>4, <1>5, <1>7, <1>8, <1>9 DEF IInv

LEMMA RefuseStep ==
  ASSUME IInv, NEW s \in Sources, NEW t \in 0 .. now, Refuse(s, t)
  PROVE  IInv'
<1>1. s \in known /\ TypeOK /\ t - last[s] \in Nat /\ NewTokens(t - last[s]) = 0
  BY DEF IInv, Refuse, TypeOK
<1>2. t < last[s] + NS_PER_TOKEN /\ t >= last[s]
  <2>1. t - last[s] < 0 * NS_PER_TOKEN + NS_PER_TOKEN
    BY <1>1, NewTokensBound
  <2> QED
    BY <1>1, <2>1, BucketAssumption DEF TypeOK
<1>3. /\ prev' = [prev EXCEPT ![s] = t]
      /\ UNCHANGED <<now, known, last, tokens, born, admitted>>
  BY DEF Refuse
<1> QED
  BY <1>1, <1>2, <1>3 DEF IInv, TypeOK, Paid, Remainder

LEMMA IInvStep == IInv /\ [Next]_vars => IInv'
<1> SUFFICES ASSUME IInv, [Next]_vars PROVE IInv'
  OBVIOUS
<1>1. CASE Tick
  BY <1>1, BucketAssumption DEF IInv, TypeOK, Tick, Paid, Remainder
<1>2. CASE UNCHANGED vars
  BY <1>2 DEF IInv, TypeOK, vars, Paid, Remainder
<1>3. CASE \E F \in SUBSET known : Forget(F)
  BY <1>3 DEF IInv, TypeOK, Forget, Paid, Remainder
<1> QED
  BY <1>1, <1>2, <1>3, FirstPacketStep, AdmitStep, RefuseStep DEF Next

LEMMA IInvAlways == Spec => []IInv
BY InitIInv, IInvStep, PTL DEF Spec

(* Types; a bucket never holds more than BURST tokens and never fewer than  *)
(* none.                                                                    *)
THEOREM TypeCorrect == Spec => []TypeOK
<1>1. IInv => TypeOK
  BY DEF IInv
<1> QED
  BY <1>1, IInvAlways, PTL

(* The rate limit: BURST packets, and one more per NS_PER_TOKEN nanoseconds *)
(* since the bucket of the source was made.                                 *)
THEOREM RateIsBounded == Spec => []RateBound
<1>1. ASSUME IInv PROVE RateBound
  <2> SUFFICES ASSUME NEW s \in known
               PROVE  (admitted[s] - BURST) * NS_PER_TOKEN <= now - born[s]
    BY DEF RateBound
  <2> DEFINE i == admitted[s] - BURST
             j == admitted[s] + tokens[s] - BURST
  <2>0. TypeOK /\ s \in Sources /\ Paid(s) /\ Remainder(s)
    BY <1>1 DEF IInv, TypeOK
  <2>1. /\ i \in Int /\ j \in Int /\ 0 \in Int /\ last[s] \in Int /\ born[s] \in Int
        /\ i <= j + 0
    BY <2>0, BucketAssumption DEF TypeOK
  <2>2. j * NS_PER_TOKEN <= last[s] - born[s]
    BY <2>0 DEF Paid
  <2> HIDE DEF i, j
  <2>3. i * NS_PER_TOKEN <= (last[s] + 0 * NS_PER_TOKEN) - born[s]
    BY <2>1, <2>2, ScaledShift, Zenon
  <2>4. 0 * NS_PER_TOKEN = 0 /\ last[s] <= now /\ now \in Int
    BY <2>0, BucketAssumption DEF TypeOK, Remainder
  <2>5. i * NS_PER_TOKEN <= now - born[s]
    <3>1. i * NS_PER_TOKEN <= last[s] - born[s] /\ i * NS_PER_TOKEN \in Int
      BY <2>1, <2>3, <2>4, BucketAssumption
    <3> QED
      BY <3>1, <2>1, <2>4
  <2> QED
    BY <2>5 DEF i
<1> QED
  BY <1>1, IInvAlways, PTL

(* A source that waits NS_PER_TOKEN between packets has all of them passed. *)
THEOREM SlowIsNeverRefused == Spec => SlowNeverRefused
<1>1. ASSUME IInv, [Next]_vars PROVE SlowStep
  <2> SUFFICES ASSUME NEW r \in known, r \in known', prev'[r] >= prev[r] + NS_PER_TOKEN
               PROVE  admitted'[r] > admitted[r]
    BY DEF SlowStep
  <2>t. TypeOK /\ Remainder(r) /\ r \in Sources
    BY <1>1 DEF IInv, TypeOK
  <2>1. prev'[r] # prev[r]
    BY <2>t, BucketAssumption DEF TypeOK
  <2>2. PICK s \in Sources, t \in 0 .. now :
          \/ \E F \in SUBSET known : FirstPacket(s, t, F)
          \/ Admit(s, t) \/ Refuse(s, t)
    BY <1>1, <2>1 DEF Next, Tick, Forget, vars
  <2>3. s = r
    BY <2>1, <2>2, <2>t DEF FirstPacket, Admit, Refuse, TypeOK
  <2>4. ~ \E F \in SUBSET known : FirstPacket(s, t, F)
    BY <2>3 DEF FirstPacket
  <2>5. ~Refuse(s, t)
    <3> SUFFICES ASSUME Refuse(r, t) PROVE FALSE
      BY <2>3
    <3>1. /\ t - last[r] \in Nat /\ NewTokens(t - last[r]) = 0 /\ prev'[r] = t
      BY <2>t DEF Refuse, TypeOK
    <3>2. t - last[r] < 0 * NS_PER_TOKEN + NS_PER_TOKEN
      BY <3>1, NewTokensBound
    <3> QED
      BY <2>t, <3>1, <3>2, BucketAssumption DEF Remainder, TypeOK
  <2> QED
    BY <2>2, <2>3, <2>4, <2>5, <2>t DEF Admit, TypeOK
<1> QED
  BY <1>1, IInvAlways, PTL DEF Spec, SlowNeverRefused
=============================================================================
