---------------------------- MODULE MCSslHook ----------------------------
(* A small instance of SslHook: two clients and one upstream that fight for *)
(* the descriptors and SSL addresses of two workers.                        *)
EXTENDS SslHook, TLC

CONSTANTS c1, c2, u1

MCIn == [s \in {c1, c2, u1} |-> <<1>>]
MCOut == [s \in {c1, c2, u1} |-> IF s = c1 THEN <<1, 2>> ELSE <<>>]

\* Workers, descriptors and SSL addresses are interchangeable.
MCSymmetry == Permutations(Workers) \cup Permutations(Fds) \cup Permutations(Ptrs)
=============================================================================
