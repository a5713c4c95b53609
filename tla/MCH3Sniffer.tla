--------------------------- MODULE MCH3Sniffer ---------------------------
(* Small instances of H3Sniffer: two streams of one worker or of two, at    *)
(* the same time or one after the other, on connection objects at different *)
(* addresses or at the same.                                                *)
EXTENDS H3Sniffer

CONSTANTS s1, s2, a1, a2

MCAddr == [s \in {s1, s2} |-> IF s = s1 THEN a1 ELSE a2]

Script(request, reply, ops) == [request |-> request, reply |-> reply, table |-> ops]
Plan(p1, p2) == [s \in {s1, s2} |-> IF s = s1 THEN p1 ELSE p2]
Static0 == [dynamic |-> FALSE, index |-> 0]
Static1 == [dynamic |-> FALSE, index |-> 1]
Newest == [dynamic |-> TRUE, index |-> 0]
Op(op, ref) == [op |-> op, dynamic |-> ref.dynamic, index |-> ref.index]
Insert == Op("insert", Static0)

\* Two requests; a request of one field with its response; a response of two fields
\* and one of one; all instructions on the table; a table that grows while a response
\* is sent; responses after inserts on the same object.
MCPlans ==
  {Plan(Script(2, <<>>, <<>>), Script(2, <<>>, <<>>)),
   Plan(Script(1, <<Static0>>, <<>>), Script(0, <<>>, <<>>)),
   Plan(Script(0, <<Static0, Static1>>, <<>>), Script(0, <<Static1>>, <<>>)),
   Plan(Script(0, <<>>, <<Insert>>),
        Script(0, <<>>, <<Op("ref_insert", Static1), Op("duplicate", Newest),
                          Op("ref_insert", Newest)>>)),
   Plan(Script(0, <<>>, <<>>), Script(0, <<Newest, Newest>>, <<Insert, Insert>>)),
   Plan(Script(0, <<>>, <<Insert>>), Script(0, <<Newest>>, <<Insert>>))}
=============================================================================
