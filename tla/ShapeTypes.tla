----------------------------- MODULE ShapeTypes -----------------------------
(***************************************************************************)
(* The Request/Response shapes of src/generated/client.ts against the JSON *)
(* the Go side sends.                                                      *)
(*                                                                         *)
(* Each alias X_REQUEST / X_RESPONSE carries, in its doc comment, the Go   *)
(* schema it was generated from (typeInfo and structs); the generated      *)
(* TypeScript is the alias itself and one struct type per Go struct.       *)
(* Aliases maps an alias name to [root, type, structs]: the Go type of     *)
(* typeInfo, the tokens of the alias's TypeScript type, and the Go structs *)
(* of the doc comment, each a sequence of <<field, Go type>>.  A Go struct *)
(* is named by the TypeScript type generated for it.  Decls is the set of  *)
(* struct declarations [name, fields]: the tokens of the declared name and *)
(* a sequence of <<field, tokens of its type>>.                            *)
(*                                                                         *)
(* TypeScript reads a declared type with its own grammar (postfix [] binds *)
(* tighter than |); Go's encoding/json writes a value of a schema type     *)
(* with its default rules (a nil pointer, slice or map is null; every      *)
(* struct field is written).  Shapes walks a reply, Requests a request.   *)
(***************************************************************************)
EXTENDS Naturals, Sequences

CONSTANTS
    Aliases,   \* alias name -> [root, type, structs]
    Decls,     \* set of [name, fields] struct declarations
    Replies,   \* the alias names that are the Response of a pattern
    None       \* no alias: the decoder is idle

(***************************************************************************)
(* Go types, as the schemas of the doc comments spell them.               *)
(***************************************************************************)
GStr == <<"string">>
GBool == <<"bool">>
GInt == <<"int">>
GUint == <<"uint">>
GFloat == <<"float">>
GAny == <<"any">>
GStruct(n) == <<"struct", n>>
GArray(t) == <<"array", t>>
GMap(k, v) == <<"map", k, v>>
GPtr(t) == <<"ptr", t>>

\* A field the Go struct does not have.
GMissing == <<"missing">>

(***************************************************************************)
(* TypeScript types.  A type is the set of the members of its union; a    *)
(* member is <<"string">>, <<"number">>, <<"boolean">>, <<"any">>,        *)
(* <<"undefined">>, <<"ref", name>>, <<"array", type>> or                 *)
(* <<"record", type, type>>.                                              *)
(***************************************************************************)
Keywords == {"string", "number", "boolean", "any", "undefined"}

Punctuation == {"[]", "|", "<", ">", ",", "{", "}"}

\* The parsers return <<ok, type, next token>>.
Fail(i) == <<FALSE, {}, i>>

RECURSIVE ParseUnion(_, _), ParsePostfix(_, _), ParsePrimary(_, _)

\* Primary: a keyword, a type name, or Record<K, V>.
ParsePrimary(ts, i) ==
    IF i > Len(ts) \/ ts[i] \in Punctuation THEN Fail(i)
    ELSE IF ts[i] \in Keywords THEN <<TRUE, {<<ts[i]>>}, i + 1>>
    ELSE IF ts[i] # "Record" THEN <<TRUE, {<<"ref", ts[i]>>}, i + 1>>
    ELSE IF i + 1 > Len(ts) \/ ts[i + 1] # "<" THEN Fail(i)
    ELSE LET k == ParseUnion(ts, i + 2)
         IN  IF ~k[1] \/ k[3] > Len(ts) \/ ts[k[3]] # "," THEN Fail(i)
             ELSE LET v == ParseUnion(ts, k[3] + 1)
                  IN  IF ~v[1] \/ v[3] > Len(ts) \/ ts[v[3]] # ">" THEN Fail(i)
                      ELSE <<TRUE, {<<"record", k[2], v[2]>>}, v[3] + 1>>

\* Postfix: every [] after a primary makes an array of what precedes it.
ParsePostfix(ts, p) ==
    IF p[1] /\ p[3] <= Len(ts) /\ ts[p[3]] = "[]"
    THEN ParsePostfix(ts, <<TRUE, {<<"array", p[2]>>}, p[3] + 1>>)
    ELSE p

\* Union: postfix types separated by |.
ParseUnion(ts, i) ==
    LET m == ParsePostfix(ts, ParsePrimary(ts, i))
    IN  IF m[1] /\ m[3] <= Len(ts) /\ ts[m[3]] = "|"
        THEN LET r == ParseUnion(ts, m[3] + 1)
             IN  <<r[1], m[2] \cup r[2], r[3]>>
        ELSE m

\* How TypeScript reads a declared type: every token must be consumed.
Parse(ts) ==
    LET r == ParseUnion(ts, 1)
    IN  [ok |-> r[1] /\ r[3] = Len(ts) + 1, type |-> r[2]]

(***************************************************************************)
(* JSON values, as JSON.parse returns them.  Numbers are told apart by    *)
(* what a JavaScript number keeps of them; an object of Go struct N is    *)
(* <<"object", N>> (its fields are positions of their own); an array or   *)
(* a map has no element or one; <<"undefined">> is a field not written.   *)
(***************************************************************************)
JNull == <<"null">>
JString == <<"string">>
JBool == <<"boolean">>
JInt == <<"int">>
JNegInt == <<"negint">>
JFrac == <<"frac">>
JBigInt == <<"bigint">>
JUndefined == <<"undefined">>

Numbers == {JInt, JNegInt, JFrac, JBigInt}

\* What an interface{} may hold, shallowly.
AnyJSON == {JNull, JString, JBool, <<"array">>, <<"map">>} \cup Numbers

\* The JSON encoding/json writes for a Go value of type g.
RECURSIVE Encode(_)
Encode(g) ==
    CASE g[1] = "string" -> {JString}
      [] g[1] = "bool"   -> {JBool}
      [] g[1] = "int"    -> {JInt, JNegInt, JBigInt}
      [] g[1] = "uint"   -> {JInt, JBigInt}
      [] g[1] = "float"  -> {JInt, JNegInt, JFrac}
      [] g[1] = "any"    -> AnyJSON
      [] g[1] = "struct" -> {<<"object", g[2]>>}
      [] g[1] = "array"  -> {JNull, <<"array">>} \cup
                            {<<"array", x>> : x \in Encode(g[2])}
      [] g[1] = "map"    -> {JNull, <<"map">>} \cup
                            {<<"map", x>> : x \in Encode(g[3])}
      [] g[1] = "ptr"    -> {JNull} \cup Encode(g[2])
      [] g[1] = "missing" -> {JUndefined}

\* Whether TypeScript type u describes the JSON value v.
RECURSIVE Accepts(_, _)
Accepts(u, v) ==
    \E m \in u :
        CASE m[1] = "any"       -> TRUE
          [] m[1] = "string"    -> v = JString
          [] m[1] = "number"    -> v \in Numbers
          [] m[1] = "boolean"   -> v = JBool
          [] m[1] = "undefined" -> v = JUndefined
          [] m[1] = "ref"       -> v = <<"object", m[2]>>
          [] m[1] = "array"     -> \/ v = <<"array">>
                                   \/ v[1] = "array" /\ Len(v) = 2
                                      /\ Accepts(m[2], v[2])
          [] m[1] = "record"    -> \/ v = <<"map">>
                                   \/ v[1] = "map" /\ Len(v) = 2
                                      /\ Accepts(m[3], v[2])

\* The value with every null read as a field not written.
RECURSIVE NullAsAbsent(_)
NullAsAbsent(v) ==
    IF v = JNull THEN JUndefined
    ELSE IF v[1] \in {"array", "map"} /\ Len(v) = 2
         THEN <<v[1], NullAsAbsent(v[2])>>
         ELSE v

(***************************************************************************)
(* The tables.                                                             *)
(***************************************************************************)
\* The declared struct types by name.
\* (A declaration whose name is not one identifier declares none.)
DeclNames == {d.name[1] : d \in {e \in Decls : Len(e.name) = 1}}

DeclFields(n) == (CHOOSE d \in Decls : d.name = <<n>>).fields

\* The TypeScript type of field f of the struct type named n.
TSField(n, f) ==
    LET fs == DeclFields(n)
    IN  Parse(fs[CHOOSE i \in DOMAIN fs : fs[i][1] = f][2])

\* The Go type of field f of struct n in the doc comment of alias a.
GoField(a, n, f) ==
    LET fs == Aliases[a].structs[n]
    IN  IF \E i \in DOMAIN fs : fs[i][1] = f
        THEN fs[CHOOSE i \in DOMAIN fs : fs[i][1] = f][2]
        ELSE GMissing

FieldNames(fs) == {fs[i][1] : i \in DOMAIN fs}

\* The type a pointer points to.
Deref(g) == IF g[1] = "ptr" THEN g[2] ELSE g

=============================================================================
