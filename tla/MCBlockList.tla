---------------------------- MODULE MCBlockList ----------------------------
(* A small instance of BlockList: two IPv6 addresses, one blocked alone and *)
(* both blocked as one prefix. The IPv4 trie is swept first and is empty.   *)
EXTENDS BlockList

CONSTANTS a, b

MCHosts == {a, b}
MCPrefixes == {{a}, {a, b}}
=============================================================================
