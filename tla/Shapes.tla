------------------------------- MODULE Shapes -------------------------------
(***************************************************************************)
(* A client decoding the Response of a command in src/generated/client.ts: *)
(* it walks the JSON Go wrote position by position, reading each with the  *)
(* TypeScript type declared there (ShapeTypes).                            *)
(***************************************************************************)
EXTENDS ShapeTypes

(***************************************************************************)
(* A client decoding a reply, position by position.                        *)
(***************************************************************************)
VARIABLES
    alias,   \* the Response alias of the reply, or None
    goT,     \* the Go type at the position
    tsT,     \* the TypeScript type the client reads the position with
    val      \* the JSON value Go wrote there

vars == <<alias, goT, tsT, val>>

Idle == [ok |-> TRUE, type |-> {}]

Init ==
    /\ alias = None
    /\ goT = GMissing
    /\ tsT = Idle
    /\ val = JUndefined

\* A reply to a command arrives: Go wrote a value of typeInfo, the client
\* reads it as the alias.
Receive(a) ==
    /\ alias = None
    /\ alias' = a
    /\ goT' = Aliases[a].root
    /\ tsT' = Parse(Aliases[a].type)
    /\ val' \in Encode(Aliases[a].root)

\* The client reads field f of an object through a struct type its type
\* names: Go wrote the field of the struct it encoded (or not at all).
Field(n, f) ==
    /\ alias # None
    /\ val[1] = "object"
    /\ <<"ref", n>> \in tsT.type
    /\ n \in DeclNames
    /\ f \in FieldNames(DeclFields(n))
    /\ goT' = GoField(alias, val[2], f)
    /\ tsT' = TSField(n, f)
    /\ val' \in Encode(GoField(alias, val[2], f))
    /\ UNCHANGED alias

\* The client reads the element of an array.
Element ==
    /\ alias # None
    /\ val[1] = "array" /\ Len(val) = 2
    /\ goT' = Deref(goT)[2]
    /\ tsT' = [ok |-> tsT.ok,
               type |-> UNION {m[2] : m \in {x \in tsT.type : x[1] = "array"}}]
    /\ val' = val[2]
    /\ UNCHANGED alias

\* The client reads the value of a map entry.
Entry ==
    /\ alias # None
    /\ val[1] = "map" /\ Len(val) = 2
    /\ goT' = Deref(goT)[3]
    /\ tsT' = [ok |-> tsT.ok,
               type |-> UNION {m[3] : m \in {x \in tsT.type : x[1] = "record"}}]
    /\ val' = val[2]
    /\ UNCHANGED alias

\* The client is done with the reply.
Done ==
    /\ alias # None
    /\ alias' = None
    /\ goT' = GMissing
    /\ tsT' = Idle
    /\ val' = JUndefined

Next ==
    \/ \E a \in Replies : Receive(a)
    \/ \E n \in DeclNames : \E f \in FieldNames(DeclFields(n)) : Field(n, f)
    \/ Element
    \/ Entry
    \/ Done

Spec == Init /\ [][Next]_vars

(***************************************************************************)
(* Properties.                                                             *)
(***************************************************************************)
\* Spec 4.3 and 6 (the reply conforms to the pattern's Response): wherever
\* Go writes an object of a struct and the client reads that position
\* through a struct type, it reads it through the type generated for that
\* very struct, and that type is declared.
ReadAsStruct == tsT.ok /\ \E m \in tsT.type : m[1] = "ref"

StructsAgree ==
    (alias # None /\ val[1] = "object" /\ ReadAsStruct) =>
        /\ <<"ref", val[2]>> \in tsT.type
        /\ val[2] \in DeclNames

\* Spec 4.5 (an individual array element may be absent/null, independent
\* of its siblings): wherever Go writes an object of a struct, the type the
\* client reads that position with names the struct's type.
ObjectsTyped ==
    (alias # None /\ tsT.ok /\ val[1] = "object") =>
        <<"ref", val[2]>> \in tsT.type

\* Spec 4.3 and 6: an object Go writes has exactly the fields the struct
\* type the client reads it with declares, so no declared field is read
\* as undefined and no written field goes undeclared.
FieldsAgree ==
    alias # None /\ val[1] = "object" /\ val[2] \in DeclNames
        /\ <<"ref", val[2]>> \in tsT.type =>
        FieldNames(Aliases[alias].structs[val[2]]) = FieldNames(DeclFields(val[2]))

\* Every type the client reads a reply with is a TypeScript type: the
\* declaration of the alias and of every struct type parses.
DeclarationsParse ==
    alias # None => tsT.ok

\* Spec 4.5 and 6: the JSON Go writes at every position is a value of the
\* TypeScript type declared there.
ReplyConforms ==
    alias # None /\ tsT.ok => Accepts(tsT.type, val)

\* Spec 4.5 (a field or an array element may be absent or null): with
\* null read as absent, the JSON Go writes at every position is a value of
\* the TypeScript type declared there.
NullableConforms ==
    alias # None /\ tsT.ok => Accepts(tsT.type, NullAsAbsent(val))

\* Spec 8 (a command's data serializes and deserializes losslessly through
\* the envelope): every number Go writes in a reply is one a JavaScript
\* number holds exactly, so JSON.parse gives the client the value Go sent.
ReplyNumbersExact ==
    alias # None => val # JBigInt

=============================================================================
