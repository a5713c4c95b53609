---------------------------- MODULE MCCapture ----------------------------
(* Small instances of Capture. Session c1 speaks HTTP/1.1 and c2 HTTP/2.    *)
EXTENDS Capture, TLC

CONSTANTS c1, c2

\* Message m of session s has `need` units and is bad or not.
Msg(s, m, need, bad) ==
  [i \in 1 .. need |-> [s |-> s, m |-> m, i |-> i, need |-> need, bad |-> bad]]

MCIn == [s \in {c1, c2} |->
  IF s = c1 THEN Msg(c1, 1, 2, FALSE) \o Msg(c1, 2, 1, TRUE)
            ELSE Msg(c2, 0, 2, FALSE) \o Msg(c2, 1, 2, TRUE)]
MCOut == [s \in {c1, c2} |-> IF s = c2 THEN Msg(c2, 1, 1, FALSE) ELSE <<>>]

\* HTTP/1.1 only.
H1In == [s \in {c1, c2} |-> Msg(s, 1, 2, s = c1)]
NoOut == [s \in {c1, c2} |-> <<>>]

\* One HTTP/2 session whose first reads are large.
H2In == [s \in {c1, c2} |-> Msg(s, 0, 2, FALSE) \o Msg(s, 1, 2, FALSE) \o Msg(s, 2, 1, FALSE)]

\* Workers, descriptors and SSL addresses are interchangeable.
MCSymmetry == Permutations(Workers) \cup Permutations(Fds) \cup Permutations(Ptrs)
=============================================================================
