----------------------------- MODULE MCPipeline -----------------------------
(* A small instance of Pipeline: what the two sniffers are given to handle. *)
EXTENDS Pipeline, TLC

CONSTANTS tls, h3, a1, a2, mapped

Message(dir, client, path, attacks, headers, encoding, body) ==
  [dir |-> dir, client |-> client, path |-> path, attacks |-> attacks, headers |-> headers,
   encoding |-> encoding, body |-> body]
Attack(kind, place) == [kind |-> kind, place |-> place]
Header(name) == [name |-> name, value |-> [k |-> "leaf"]]

Leaf == [k |-> "leaf"]
Object(f) == [k |-> "object", fields |-> f]
Array(items) == [k |-> "array", items |-> items]
Json(tree) == [k |-> "json", tree |-> tree]
Text(pieces) == [k |-> "text", pieces |-> pieces]
Packed(by, fault, large, inner) ==
  [k |-> "packed", by |-> by, fault |-> fault, large |-> large, inner |-> inner]
NoBody == Text({})

\* JSON trees of three levels.
Keys == {"user", "PASSWORD"}
Branches(trees) ==
  {Object(f) : f \in UNION {[ks -> trees] : ks \in SUBSET Keys}}
  \cup {Array(items) : items \in {<<t>> : t \in trees} \cup {<<t, u>> : t, u \in {Leaf} \cup trees}}
Trees1 == {Leaf} \cup {Object([key \in {"PASSWORD"} |-> Leaf]), Array(<<Leaf>>)}
Trees == Branches(Trees1)

Quiet(body, encoding) == Message("response", a1, {}, {}, {Header("Cookie"), Header("host")}, encoding, body)
LoginTree(secret) == Object("user" :> Leaf @@ "token" :> secret)
Login == Json(LoginTree(Leaf))

\* The trees, those they become, and the parts of both.
Parts1 == Trees1 \cup {Redacted, Object([key \in {"PASSWORD"} |-> Redacted])}
MCJson == Parts1 \cup Branches(Parts1) \cup {LoginTree(Leaf), LoginTree(Redacted)}
MCHeight == [v \in MCJson |-> IF Parts(v) = {} THEN 0 ELSE IF v \in Parts1 THEN 1 ELSE 2]

\* One message that carries each kind of body.
Bodies ==
  {Quiet(Json(t), "") : t \in Trees}
  \cup {Quiet(Text(p), "") : p \in SUBSET {"pattern", "quoted", "other"}}
  \cup {Quiet(Packed(by, state[1], state[2], inner), encoding) :
          by \in {"gzip", "zstd"},
          state \in {"none", "within"} \X BOOLEAN \cup {<<"beyond", TRUE>>},
          inner \in {Login, Text({"pattern"})}, encoding \in {"", "gzip", "zstd"}}

\* Requests with attacks in the path or the body, in various places: from a client
\* that both sniffers see, from one that AddBlocked refuses, and one whose packed
\* body hides its attack. The paths hold what a pattern would match.
Bad(client, attacks) == Message("request", client, {"pattern"}, attacks, {Header("authorization")}, "", Login)
Hidden ==
  Message("request", a2, {"pattern"}, {Attack("sqli", "body")}, {}, "gzip",
          Packed("gzip", "none", FALSE, Login))
Both == Bad(a1, {Attack("sqli", "body"), Attack("xss", "path")})
Path(client) == Bad(client, {Attack("traversal", "path")})
Alone ==
  {<<Hidden, Path(mapped)>>, <<Bad(a1, {Attack("traversal", "body")}), Both>>, <<Path(a1), Path(a1)>>}

\* Each body, and some pairs of requests, for one sniffer; and a request for each of
\* them, from one client or from two.
MCInboxes ==
  {tls :> ms @@ h3 :> <<>> : ms \in Alone \cup {<<m>> : m \in Bodies}}
  \cup {tls :> <<>> @@ h3 :> ms : ms \in Alone}
  \cup {tls :> <<Both>> @@ h3 :> <<Path(client)>> : client \in {a1, mapped}}
=============================================================================
