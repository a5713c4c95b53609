---------------------------- MODULE MCReassembly ----------------------------
(* Small instances of Http1 and Http2.                                      *)
EXTENDS Reassembly

ThreeStreams == {1, 2, 3}
UpToTwo == {0, 1, 2}

HeadFor(cl, te, code, version, connection) ==
  [k |-> "head", cl |-> cl, te |-> te, code |-> code, version |-> version,
   connection |-> connection]
Message(head, parts, trailers) == [head |-> head, chunks |-> parts, trailers |-> trailers]

Keep(cl, te, code) == HeadFor(cl, te, code, "1.1", "")

\* Without a body, with a length, with a blank line in the body, chunked, chunked
\* with a blank line, a length that does not count and trailers.
MCRequests ==
  {Message(Keep(NoLength, FALSE, "none"), <<>>, 0),
   Message(Keep(1, FALSE, "none"), <<<<Word>>>>, 0),
   Message(Keep(3, FALSE, "none"), <<<<NL, NL, Text>>>>, 0),
   Message(Keep(NoLength, TRUE, "none"), <<<<Word>>, <<Text, NL>>>>, 0),
   Message(Keep(1, TRUE, "none"), <<<<NL, NL>>>>, 2)}

\* The same for responses, one that has a length and no body, and two that end
\* with the connection.
MCResponses ==
  {Message(Keep(NoLength, FALSE, "other"), <<>>, 0),
   Message(Keep(3, FALSE, "other"), <<<<NL, NL, Text>>>>, 0),
   Message(Keep(1, FALSE, "304"), <<>>, 0),
   Message(Keep(1, TRUE, "other"), <<<<Word>>, <<NL, NL>>>>, 1),
   Message(HeadFor(NoLength, FALSE, "other", "1.0", "keep-alive"), <<>>, 0),
   Message(HeadFor(NoLength, FALSE, "other", "1.1", "close"), <<<<Word, NL, NL, Word>>>>, 0),
   Message(HeadFor(NoLength, FALSE, "other", "1.0", ""), <<<<Text, NL, Text, NL, NL>>>>, 0)}
=============================================================================
