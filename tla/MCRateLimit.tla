---------------------------- MODULE MCRateLimit ----------------------------
(* A small instance of RateLimit: two CPUs and two sources. The NIC hands   *)
(* the packets of s1 to one CPU and those of s2 to both.                    *)
EXTENDS RateLimit

CONSTANTS s1, s2, c1, c2

MCSteer == [c \in {c1, c2} |-> IF c = c1 THEN {s1, s2} ELSE {s2}]
Spread == [c \in {c1, c2} |-> {s1}]
=============================================================================
