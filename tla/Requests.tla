------------------------------ MODULE Requests ------------------------------
(***************************************************************************)
(* A client sending the Request of a command in src/generated/client.ts,  *)
(* and the operator decoding it.  The client builds any value its declared *)
(* TypeScript type admits and JSON.stringify writes it; Go's encoding/json *)
(* decodes it into the Go type of the alias's doc comment.  The decoder    *)
(* is walked position by position: the Go type there, the TypeScript type  *)
(* the client wrote it with, and the JSON value written.                   *)
(***************************************************************************)
EXTENDS ShapeTypes

CONSTANT Payloads   \* the alias names that are the Request of a pattern

(***************************************************************************)
(* JSON.stringify.  A value of TypeScript type u is written as one of the  *)
(* values below; a member that is undefined is left out of an object (the  *)
(* field is not written) and written as null inside an array.              *)
(***************************************************************************)
RECURSIVE Written(_)
Written(u) ==
    UNION {CASE m[1] = "any"       -> AnyJSON
             [] m[1] = "string"    -> {JString}
             [] m[1] = "number"    -> {JInt, JNegInt, JFrac}
             [] m[1] = "boolean"   -> {JBool}
             [] m[1] = "undefined" -> {JUndefined}
             [] m[1] = "ref"       -> {<<"object", m[2]>>}
             [] m[1] = "array"     ->
                   {<<"array">>} \cup
                   {<<"array", IF x = JUndefined THEN JNull ELSE x>> :
                        x \in Written(m[2])}
             [] m[1] = "record"    ->
                   {<<"map">>} \cup
                   {<<"map", x>> : x \in Written(m[3]) \ {JUndefined}}
           : m \in u}

(***************************************************************************)
(* json.Unmarshal at one position (its children are positions of their    *)
(* own).  null leaves the Go value as it is and a field Go does not have   *)
(* is skipped; otherwise the JSON kind must fit the Go kind, and a number  *)
(* must fit the Go number type, or Unmarshal fails with an                 *)
(* UnmarshalTypeError.                                                     *)
(***************************************************************************)
\* The JSON numbers a Go number type decodes.
NumbersFor(g) ==
    CASE g[1] = "int"   -> {JInt, JNegInt, JBigInt}
      [] g[1] = "uint"  -> {JInt, JBigInt}
      [] g[1] = "float" -> Numbers
      [] OTHER          -> Numbers

\* Whether the JSON kind of v fits the (dereferenced) Go type g.
KindFits(g, v) ==
    CASE g[1] = "string" -> v = JString
      [] g[1] = "bool"   -> v = JBool
      [] g[1] \in {"int", "uint", "float"} -> v \in Numbers
      [] g[1] \in {"struct", "map"} -> v[1] \in {"object", "map"}
      [] g[1] = "array"  -> v[1] = "array"
      [] OTHER           -> TRUE

Unmarshals(g, v) ==
    \/ v \in {JNull, JUndefined}
    \/ /\ KindFits(Deref(g), v)
       /\ v \in Numbers => v \in NumbersFor(Deref(g))

(***************************************************************************)
(* The walk.                                                               *)
(***************************************************************************)
VARIABLES
    ralias,   \* the Request alias of the command, or None
    rgoT,     \* the Go type the operator decodes the position into
    rtsT,     \* the TypeScript type the client wrote the position with
    rval      \* the JSON value written there

rvars == <<ralias, rgoT, rtsT, rval>>

RInit ==
    /\ ralias = None
    /\ rgoT = GMissing
    /\ rtsT = [ok |-> TRUE, type |-> {}]
    /\ rval = JUndefined

\* The client sends a value of the alias's type; the operator decodes it
\* into typeInfo.
Send(a) ==
    /\ ralias = None
    /\ ralias' = a
    /\ rgoT' = Aliases[a].root
    /\ rtsT' = Parse(Aliases[a].type)
    /\ rval' \in Written(Parse(Aliases[a].type).type)

\* The decoder fills field f of the Go struct from the object the client
\* built as struct type n.
DecodeField(f) ==
    /\ ralias # None
    /\ rval[1] = "object"
    /\ Deref(rgoT)[1] = "struct"
    /\ rval[2] \in DeclNames
    /\ f \in FieldNames(DeclFields(rval[2]))
    /\ rgoT' = GoField(ralias, Deref(rgoT)[2], f)
    /\ rtsT' = TSField(rval[2], f)
    /\ rval' \in Written(TSField(rval[2], f).type)
    /\ UNCHANGED ralias

\* The decoder fills an element of a Go slice.  (No Request schema has a Go
\* map, so the decoder never fills one.)
DecodeElement ==
    /\ ralias # None
    /\ rval[1] = "array" /\ Len(rval) = 2
    /\ Deref(rgoT)[1] = "array"
    /\ rgoT' = Deref(rgoT)[2]
    /\ rtsT' = [ok |-> rtsT.ok,
                type |-> UNION {m[2] : m \in {x \in rtsT.type : x[1] = "array"}}]
    /\ rval' = rval[2]
    /\ UNCHANGED ralias

\* The operator is done with the request.
Decoded ==
    /\ ralias # None
    /\ ralias' = None
    /\ rgoT' = GMissing
    /\ rtsT' = [ok |-> TRUE, type |-> {}]
    /\ rval' = JUndefined

RNext ==
    \/ \E a \in Payloads : Send(a)
    \/ \E f \in UNION {FieldNames(d.fields) : d \in Decls} : DecodeField(f)
    \/ DecodeElement
    \/ Decoded

RSpec == RInit /\ [][RNext]_rvars

(***************************************************************************)
(* Properties.                                                             *)
(***************************************************************************)
\* Spec 4.3 and 6 (the payload conforms to the pattern's Request): every
\* object the client builds as a struct type is decoded into the Go struct
\* that type was generated for, and the two have the same fields, so
\* json.Unmarshal neither skips a field the client wrote (Go silently
\* ignores unknown fields) nor leaves a Go field unset that the type made
\* the client write.
RequestStructsAgree ==
    (ralias # None /\ rtsT.ok /\ rval[1] = "object" /\ Deref(rgoT)[1] = "struct") =>
        /\ Deref(rgoT) = GStruct(rval[2])
        /\ FieldNames(Aliases[ralias].structs[rval[2]])
              = FieldNames(DeclFields(rval[2]))

\* Spec 4.5 and 7: every payload the declared Request type admits is one
\* the operator's json.Unmarshal accepts in its kind (object, array,
\* string, number, boolean) at every position.
RequestKindsDecode ==
    (ralias # None /\ rtsT.ok) => KindFits(Deref(rgoT), rval)
                                  \/ rval \in {JNull, JUndefined}

\* Spec 4.5 and 7: every number the declared Request type admits at a
\* position Go decodes as a number is one json.Unmarshal accepts there.
RequestNumbersDecode ==
    (ralias # None /\ rtsT.ok /\ rval \in Numbers
        /\ Deref(rgoT)[1] \in {"int", "uint", "float"}) => Unmarshals(rgoT, rval)

=============================================================================
