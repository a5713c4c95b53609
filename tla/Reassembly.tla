----------------------------- MODULE Reassembly -----------------------------
(****************************************************************************)
(* The parsers of one direction of a connection. The sniffer decides once,  *)
(* from the first bytes, which of the two it feeds                          *)
(* (internal/sniffer/sniffer.go, conn.proto); the other one is never        *)
(* called. How it decides is in module Sniffer.                             *)
(****************************************************************************)
EXTENDS Http1, Http2

VARIABLE proto   \* conn.proto

reassemblyVars == <<proto, http1Vars, vars>>

ReassemblyInit ==
  /\ proto \in {"ProtoHTTP1", "ProtoHTTP2"}
  /\ IF proto = "ProtoHTTP1" THEN InitHttp1
     ELSE isRequest = TRUE /\ msgs = <<>> /\ read = 0 /\ buf = <<>> /\ out = <<>>
  /\ Init

ReassemblyNext ==
  \/ proto = "ProtoHTTP1" /\ NextHttp1 /\ UNCHANGED <<proto, vars>>
  \/ proto = "ProtoHTTP2" /\ Next /\ UNCHANGED <<proto, http1Vars>>

ReassemblySpec == ReassemblyInit /\ [][ReassemblyNext]_reassemblyVars

=============================================================================
