----------------------------- MODULE Inspection -----------------------------
(****************************************************************************)
(* What the daemon does to one message between the parsers and the log:     *)
(* AnalyseReq (internal/analysis/analyse.go), decodeBody                    *)
(* (internal/parser/decompress.go) and masking                              *)
(* (internal/masking/masking.go), as operators.                             *)
(*                                                                          *)
(* A header is a name and a value. A body is a JSON tree, a text of which   *)
(* only the kinds of its pieces matter, or the result of a compression; the *)
(* path, with the query, is such a text too.                                *)
(* The patterns of the detectors are abstracted to the kind of attack they  *)
(* stand for: a message carries attacks in its path or in its body.         *)
(****************************************************************************)
EXTENDS Naturals, Sequences, FiniteSets

CONSTANTS
  JSON,      \* the trees that bodies may be parsed to, and what masking makes of them
  Height     \* of each tree: what a parser returns has an end

\* The parts of a tree: the values of its fields or its items.
Parts(v) ==
  CASE v.k = "object" -> {v.fields[key] : key \in DOMAIN v.fields}
    [] v.k = "array" -> {v.items[i] : i \in DOMAIN v.items}
    [] OTHER -> {}

Redacted == [k |-> "redacted"]

ASSUME JsonAssumption ==
  /\ Redacted \in JSON
  /\ \A v \in JSON :
       /\ "k" \in DOMAIN v
       /\ v.k = "object" => "fields" \in DOMAIN v
       /\ v.k = "array" => "items" \in DOMAIN v
       /\ Parts(v) \subseteq JSON
  /\ Height \in [JSON -> Nat]
  /\ \A v \in JSON : \A part \in Parts(v) : Height[part] < Height[v]

Lower(name) == CASE name = "PASSWORD" -> "password" [] name = "Cookie" -> "cookie" [] OTHER -> name

-----------------------------------------------------------------------------
(* AnalyseReq: the first detector that matches. All of them look at the     *)
(* path, and all but one at the body as it was sent.                        *)

Detectors == <<"sqli", "cmdi", "traversal", "xss">>
LooksAt(detector) == IF detector = "traversal" THEN {"path"} ELSE {"path", "body"}

\* A compressed body shows nothing to the patterns.
Visible(m) == IF m.body.k = "packed" THEN {a \in m.attacks : a.place = "path"} ELSE m.attacks

Matches(detector, m) ==
  \E a \in Visible(m) : a.kind = detector /\ a.place \in LooksAt(detector)

AnalyseReq(m) ==
  LET matching == {i \in 1 .. Len(Detectors) : Matches(Detectors[i], m)} IN
  IF matching = {} THEN {}
  ELSE {Detectors[CHOOSE i \in matching : \A j \in matching : i <= j]}

-----------------------------------------------------------------------------
(* decodeBody: only the outermost encoding is known, and only one of them.  *)

Known == {"gzip", "x-gzip", "br", "deflate"}

\* What is wrong with a packed body is met when it lies within maxDecompressedSize;
\* the reader stops before a fault beyond that, and what it has read is used.
\* A body that is cut at maxDecompressedSize is no JSON any more. The patterns
\* for text do not match a key in quotes.
CutOff(body) == [k |-> "text", pieces |-> IF body.k = "json" THEN {"quoted"} ELSE body.pieces]

decodeBody(body, encoding) ==
  IF encoding \in Known /\ body.k = "packed" /\ body.by = encoding /\ body.fault # "within"
  THEN IF body.large THEN CutOff(body.inner) ELSE body.inner
  ELSE body

\* DecodeRequestBody and DecodeResponseBody.
Decoded(m) == [m EXCEPT !.body = decodeBody(m.body, m.encoding)]

-----------------------------------------------------------------------------
(* MaskRequest and MaskResponse.                                            *)

sensitiveHeaders == {"authorization", "cookie"}
sensitiveFields == {"password", "token"}

\* Variant: names are compared as they are.
maskHeaders_case(headers) ==
  {[h EXCEPT !.value = IF h.name \in sensitiveHeaders THEN Redacted ELSE @] : h \in headers}
maskHeaders(headers) ==
  {[h EXCEPT !.value = IF Lower(h.name) \in sensitiveHeaders THEN Redacted ELSE @] : h \in headers}

maskJSON[v \in JSON] ==
  CASE v.k = "object" ->
         [v EXCEPT !.fields = [key \in DOMAIN v.fields |->
            IF Lower(key) \in sensitiveFields THEN Redacted ELSE maskJSON[v.fields[key]]]]
    [] v.k = "array" -> [v EXCEPT !.items = [i \in DOMAIN v.items |-> maskJSON[v.items[i]]]]
    [] OTHER -> v

ASSUME MaskingAssumption == \A v \in JSON : maskJSON[v] \in JSON

\* Pieces of a text that a pattern stands for.
plaintextPatterns == {"pattern"}
maskPlaintext(pieces) == pieces \ plaintextPatterns

\* A packed body is no JSON, and no pattern is looked for in the model of it.
maskBody(body) ==
  CASE body.k = "json" -> [body EXCEPT !.tree = maskJSON[body.tree]]
    [] body.k = "text" -> [body EXCEPT !.pieces = maskPlaintext(@)]
    [] OTHER -> body

\* The path stays as it came.
Masked(m) == [m EXCEPT !.headers = maskHeaders(@), !.body = maskBody(@)]

-----------------------------------------------------------------------------
(* What a message is made of, and what a logged document shows.             *)

IsBody(body) ==
  /\ "k" \in DOMAIN body
  /\ body.k = "json" => "tree" \in DOMAIN body /\ body.tree \in JSON
  /\ body.k = "text" => "pieces" \in DOMAIN body

IsMessage(m) ==
  /\ {"path", "headers", "body"} \subseteq DOMAIN m
  /\ \A h \in m.headers : {"name", "value"} \subseteq DOMAIN h
  /\ IsBody(m.body)
  /\ m.body.k = "packed" => IsBody(m.body.inner)

Subtrees[v \in JSON] == {v} \cup UNION {Subtrees[part] : part \in Parts(v)}

\* Where a message, or a document made of one, shows what the masks stand for: a
\* header or a field whose name says that it is secret, or a text that a pattern matches.
ShowsInHeaders(m) == \E h \in m.headers : Lower(h.name) \in sensitiveHeaders /\ h.value # Redacted
ShowsInBody(m) ==
  \/ /\ m.body.k = "json"
     /\ \E v \in Subtrees[m.body.tree] : v.k = "object"
          /\ \E key \in DOMAIN v.fields : Lower(key) \in sensitiveFields /\ v.fields[key] # Redacted
  \/ m.body.k = "text" /\ m.body.pieces \cap plaintextPatterns # {}
ShowsInPath(m) == m.path \cap plaintextPatterns # {}

Shown(m) ==
  {place \in {"headers", "body", "path"} :
     \/ place = "headers" /\ ShowsInHeaders(m)
     \/ place = "body" /\ ShowsInBody(m)
     \/ place = "path" /\ ShowsInPath(m)}

=============================================================================
