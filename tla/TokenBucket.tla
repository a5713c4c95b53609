---------------------------- MODULE TokenBucket ----------------------------
(****************************************************************************)
(* What the rate limiter of bpf/xdp_filter.bpf.c promises to one source: a  *)
(* bucket of BURST tokens that gains one token per NS_PER_TOKEN             *)
(* nanoseconds, handled one packet at a time. RateLimit, which splits a     *)
(* packet in the loads and stores of the program, is checked against it.    *)
(****************************************************************************)
EXTENDS Integers

CONSTANTS
  Sources,
  BURST,
  NS_PER_TOKEN,
  MaxTime        \* bound: the clock

ASSUME BucketAssumption ==
  /\ BURST \in Nat \ {0} /\ NS_PER_TOKEN \in Nat \ {0} /\ MaxTime \in Nat

VARIABLES
  now,       \* the clock
  known,     \* sources with a bucket
  last,      \* last_updated_at of each
  tokens,    \* tokens of each
  born,      \* history: when the bucket was made
  admitted,  \* history: packets passed since then
  prev       \* history: arrival of the previous packet

vars == <<now, known, last, tokens, born, admitted, prev>>

Smaller(m, n) == IF m <= n THEN m ELSE n
\* Variants: the time of a token rounded up, and rounded away.
NewTokensEarly(elapsed) == (elapsed + 1) \div NS_PER_TOKEN
NewTokensLate(elapsed) == elapsed \div (NS_PER_TOKEN + 1)
NewTokens(elapsed) == elapsed \div NS_PER_TOKEN
\* Variant: no limit on what a bucket holds.
RefilledUnlimited(tok, new) == tok + new
Refilled(tok, new) == IF new > 0 THEN Smaller(tok + new, BURST) ELSE tok

Init ==
  /\ now = 0
  /\ known = {}
  /\ last = [s \in Sources |-> 0]
  /\ tokens = [s \in Sources |-> 0]
  /\ born = [s \in Sources |-> 0]
  /\ admitted = [s \in Sources |-> 0]
  /\ prev = [s \in Sources |-> 0]

Tick ==
  /\ now < MaxTime
  /\ now' = now + 1
  /\ UNCHANGED <<known, last, tokens, born, admitted, prev>>

\* The LRU map makes room for a source that is not one of these.
Forget(forgotten) ==
  /\ known' = known \ forgotten
  /\ UNCHANGED <<now, last, tokens, born, admitted, prev>>

\* The first packet of s, which came in at time t, makes a full bucket and
\* takes a token of it; the LRU map may forget other sources to make room.
FirstPacket(s, t, forgotten) ==
  /\ s \notin known
  /\ known' = (known \ forgotten) \cup {s}
  /\ last' = [last EXCEPT ![s] = t]
  /\ tokens' = [tokens EXCEPT ![s] = BURST - 1]
  /\ born' = [born EXCEPT ![s] = t]
  /\ admitted' = [admitted EXCEPT ![s] = 1]
  /\ prev' = [prev EXCEPT ![s] = t]
  /\ UNCHANGED now

Admit(s, t) ==
  LET new == NewTokens(t - last[s]) IN
  /\ s \in known
  /\ t >= last[s]
  /\ Refilled(tokens[s], new) > 0
  /\ tokens' = [tokens EXCEPT ![s] = Refilled(@, new) - 1]
  /\ last' = [last EXCEPT ![s] = @ + new * NS_PER_TOKEN]
  /\ admitted' = [admitted EXCEPT ![s] = @ + 1]
  /\ prev' = [prev EXCEPT ![s] = t]
  /\ UNCHANGED <<now, known, born>>

Refuse(s, t) ==
  /\ s \in known
  /\ t >= last[s]
  /\ NewTokens(t - last[s]) = 0
  /\ tokens[s] = 0
  /\ prev' = [prev EXCEPT ![s] = t]
  /\ UNCHANGED <<now, known, last, tokens, born, admitted>>

Next ==
  \/ Tick
  \/ \E forgotten \in SUBSET known : Forget(forgotten)
  \/ \E s \in Sources : \E t \in 0 .. now :
       \/ \E forgotten \in SUBSET known : FirstPacket(s, t, forgotten)
       \/ Admit(s, t)
       \/ Refuse(s, t)

Spec == Init /\ [][Next]_vars

-----------------------------------------------------------------------------

\* Types; a bucket holds from 0 to BURST tokens.
TypeOK ==
  /\ now \in Nat
  /\ known \subseteq Sources
  /\ last \in [Sources -> Nat]
  /\ tokens \in [Sources -> 0 .. BURST]
  /\ born \in [Sources -> Nat]
  /\ admitted \in [Sources -> Nat]
  /\ prev \in [Sources -> Nat]

\* The rate limit itself: since its bucket was made, a source has had at most
\* BURST packets passed, plus one per NS_PER_TOKEN nanoseconds.
RateBound ==
  \A s \in known : (admitted[s] - BURST) * NS_PER_TOKEN <= now - born[s]

\* A source whose packets are at least NS_PER_TOKEN apart never has one
\* refused: the remainder that "last" keeps is never more than one token's time.
SlowStep ==
  \A s \in known \cap known' :
    (prev'[s] >= prev[s] + NS_PER_TOKEN) => admitted'[s] > admitted[s]
SlowNeverRefused == [][SlowStep]_vars

=============================================================================
