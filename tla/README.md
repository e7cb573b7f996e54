# TLA+ verification of the generated command client

The repository's source is one generated TypeScript module,
`src/generated/client.ts`. It is the contract layer between a client and the
mogenius operator. It defines:

- the closed set of command **patterns**;
- the two lookups between a pattern and its wire string;
- the Request/Response **contract** of every pattern;
- an accessor that gives a pattern's contract to the type checker.

Nothing in it holds mutable state at run time. Every object is built once, when
the module loads. What can go wrong lies in two places:

- **The data.** A table can drift from the enumeration, or a key can be
  assigned twice.
- **The JavaScript semantics of the lookups.** A read of a missing key, or of a
  name inherited from `Object.prototype`, returns something.

How these tables are used is out of the module. A client selects a pattern,
sends its wire string with a payload, and a remote executor resolves the string
and answers with an envelope. The project models that exchange so that the
table properties can be stated as what a command sees.

## Inventory

| Part (spec) | Code (`client.ts`) | State | Operations |
|---|---|---|---|
| Pattern enumeration (4.1) | `enum Pattern`, 5-123 | 117 members, each a name and a wire string | member access `Pattern.X` |
| Bidirectional lookup (4.2) | `StringToPattern` 129-247, `PatternToString` 249-367 | two object literals built at load time | property read `obj[s]` |
| Contract registry (4.3) | `interface IPatternConfig` 9324-9793, `PatternKey` 9795 | one `{Request, Response}` entry per computed key `[Pattern.X]` | indexed access `IPatternConfig[K]` |
| Accessor (4.4) | `PatternInfo` 9797-9799 | none; returns `{}` typed as the contract | call |
| Shapes and envelope (4.5) | aliases 372-8857, with the Go schema of each in its doc comment; struct types 8859-9318 | none | decoding a reply (`Shapes`); encoding and decoding a request (`Requests`) |

**Interactions.** `StringToPattern` and `PatternToString` are built from
`Pattern`'s values. `IPatternConfig`'s keys are the same values. `PatternInfo`
is typed through `PatternKey`. The Request and Response types of an entry are
the shapes a command's payload and reply must have.

**Hard behaviours.**

- A property read of a string outside the table yields `undefined`. For an
  `Object.prototype` name (`constructor`, `toString`, `__proto__`, ...) it
  yields an inherited function.
- In an object literal, a key assigned twice keeps its last value. Computed
  keys `[Pattern.X]` take the enum's string values, and TypeScript accepts
  duplicate string values in an enum.
- Nothing checks that `IPatternConfig` covers the enumeration exactly.
- Nothing checks that the entry of member X names X's own types.
- Field shapes: Go `nil` encodes as JSON `null`, but the types say
  `X|undefined`. The generator writes nullable array elements as
  `T|undefined[]`, which TypeScript parses as `T | undefined[]`. A name containing `interface {}`
  is kept with its space and braces.

## Modules

- `ClientTables.tla`: the four tables of `client.ts`, transcribed entry by
  entry and in source order.
  - `RealPatternEnum`: the enum members.
  - `RealStringToPattern` and `RealPatternToString`: the two literals.
  - `RealPatternConfig`: for each registry entry, the member and the names of
    its Request and Response aliases.
- `PatternRegistry.tla`: the core.
  - The tables are CONSTANTS: sequences of `<<key, value>>` entries.
  - `ObjectLiteral` builds an object the way JavaScript evaluates a literal,
    where the last assignment of a key wins (`LastIndex`).
  - `PropertyKey` is ToPropertyKey: `undefined` becomes the key
    `"undefined"`.
  - `Get` is a property read. A missing key falls back to the names in
    `ProtoKeys`, which yield `Inherited`, and otherwise yields `Undefined`.
  - `Pattern`, `StringToPattern`, `PatternToString`, `IPatternConfig`,
    `PatternKey` and `PatternInfo` are then the objects and types of the file.
  - The exchange adds the variables `cphase`, `selected` and `contract` for
    the client, `chan` for the command in transit, and `received`,
    `resolved` and `reply` for the executor.
  - Its actions are:
    - `Select(p)`: the client selects a pattern and takes `PatternInfo(p)`.
    - `Send`: the client sends `PatternToString[selected]` with a payload of
      the Request shape.
    - `PeerSend(s)`: another peer sends any string.
    - `Execute`: the executor reads `StringToPattern[wire]` and answers with
      the Response shape of its own `PatternInfo`.
    - `Complete`: the client takes the reply, and the command's scope ends.
- `CommandContract.tla`: the abstract specification of a typed command
  (spec 6 and 8), with the wire left out. `Call(p)` invokes pattern `p` with
  its Request shape, `Respond` answers with the Response shape of the pattern
  invoked, and `Return` ends the command.
  - `PatternRegistry` instantiates it as `Command`. The refinement mapping
    sends the client's command to `pending` while it is in transit and to
    `answered` once the executor has handled it. Selecting a pattern, a
    peer's command and its execution are stutters.
  - `ImplementsCommandContract == Command!Spec`.
  - `CommandInv` is what a typed command promises:
    - while outstanding, it is one pattern with that pattern's Request shape;
    - it returns with the same pattern's Response shape;
    - nothing is left over between commands.
- `CommandContractProofs.tla`: the proof that `CommandContract` keeps
  `CommandInv`.
- `MCPatternRegistry.tla`: binds the constants to `ClientTables` for TLC.
  - `ProtoKeys` is the twelve names of `Object.prototype`.
  - `WireInputs` is every wire string, four near misses (`"get/user/"`,
    `"upgradek8smanager"`, `"GET_USER"`, `"not/a/real/pattern"`) and four
    prototype names.
- `GeneratedTables.tla` and `MCGeneratedTables.tla`: the real tables with
  `ASSUME GeneratedTablesConsistent == TablesConsistent`. TLC evaluates this
  assumption, the hypothesis of `ExchangeSafe`, on every run of
  `MCGeneratedTables`.
- `PatternRegistryProofs.tla`: the TLAPS proofs.
- `ShapeTypes.tla`: the constants and the pure operators both directions of
  a command share.
  - `Aliases` maps each alias to three things: its `typeInfo` root (a Go
    type), the tokens of its TypeScript right-hand side, and the Go structs
    of its doc comment, each keyed by the name of the type generated for it.
  - `Decls` is the set of struct declarations: the tokens of the name, and
    the tokens of each field's type.
  - Go types are `GStr`, `GInt`, `GUint`, `GFloat`, `GBool`, `GAny`,
    `GStruct`, `GArray`, `GMap` and `GPtr`.
  - `Parse` is TypeScript's grammar for these declarations: postfix `[]`
    binds tighter than `|`, and every token must be consumed.
  - `Encode` is the JSON that Go's `encoding/json` may write for a Go type:
    - a nil pointer, slice or map is `null`;
    - every field of a struct is written;
    - a number is an integer, a negative integer, a fraction, or an integer
      beyond 2^53.
  - `Accepts` says whether a TypeScript type describes a JSON value.
- `Shapes.tla` extends `ShapeTypes`: how a client decodes a Response.
  - The variables are `alias`, `goT`, `tsT` (the parsed type the client reads
    with) and `val` (the JSON Go wrote).
  - The actions are:
    - `Receive(a)`: a reply of alias `a` arrives;
    - `Field(n, f)`: read field `f` through struct type `n`;
    - `Element`: read an array element;
    - `Entry`: read a map value;
    - `Done`: finish with the reply.
- The types of the file, transcribed in source order, with one definition per
  alias (named as the alias) and one per declaration (named as the type):
  - `ClientRequestAliases.tla` and `ClientResponseAliases.tla`: the 117 Request
    and 117 Response aliases, each with the Go schema of its doc comment;
  - `ClientRequestStructs.tla`: the 144 structs generated for Requests;
  - `ClientResponseStructs1.tla` and `ClientResponseStructs2.tla`: the 316
    structs generated for Responses, split between two modules.
- `ClientShapes.tla`: extends those five. `ClientAliases` maps each alias
  name to its definition, and `ClientDecls` is the set of declarations.
- `MCShapes.tla`: the replies are the Response aliases that `IPatternConfig`
  names.
- `Requests.tla` extends `ShapeTypes`: how the operator decodes a Request.
  - `Written(u)` is `JSON.stringify` of any value of TypeScript type `u`:
    - a `number` may be an integer, a negative integer or a fraction;
    - an `undefined` field is not written;
    - an `undefined` array element is written as `null`.
  - `Unmarshals(g, v)` is Go's `json.Unmarshal` at one position:
    - `null` is a no-op;
    - otherwise the JSON kind must fit the Go kind (`KindFits`);
    - a number must fit the Go number type (`NumbersFor`): no fraction into
      an `int`, no negative into a `uint`.
  - The variables are `ralias`, `rgoT` (the Go type decoded into), `rtsT`
    (the type the client wrote with) and `rval` (the JSON written).
  - The actions are:
    - `Send(a)`: the client sends a value of Request alias `a`;
    - `DecodeField(f)`: the decoder fills Go field `f` from the object;
    - `DecodeElement`: the decoder fills a slice element;
    - `Decoded`: the decoder is done.
  - No Request schema has a Go map, so there is no map step.
- `MCRequests.tla`: the payloads are the Request aliases that
  `IPatternConfig` names.

## Runs

| Run | cfg | Expect | Shows |
|---|---|---|---|
| `exchange` | `MCPatternRegistry.cfg` | pass | `RoundTrip`, `ContractAgreement`, `IInv`, `RegistryAgreement`, `ImplementsCommandContract` |
| `generated_tables` | `MCGeneratedTables.cfg` | pass | `NoDefaultForUnknown`, and the assumption `TablesConsistent` |
| `reply_shapes` | `MCShapes.cfg` | pass | `StructsAgree`, `FieldsAgree` |
| `request_shapes` | `MCRequests.cfg` | pass | `RequestStructsAgree` |
| `unknown_pattern` | `MCPatternRegistryUnknown.cfg` | violation | `UnknownPatternFails` |
| `interface_names` | `MCShapesDeclarationsParse.cfg` | violation | `DeclarationsParse` |
| `nil_pointer` | `MCShapesReplyConforms.cfg` | violation | `ReplyConforms` |
| `nil_slice` | `MCShapesNullableConforms.cfg` | violation | `NullableConforms` |
| `array_precedence` | `MCShapesObjectsTyped.cfg` | violation | `ObjectsTyped` |
| `number_precision` | `MCShapesReplyNumbersExact.cfg` | violation | `ReplyNumbersExact` |
| `request_precedence` | `MCRequestsRequestKindsDecode.cfg` | violation | `RequestKindsDecode` |
| `request_numbers` | `MCRequestsRequestNumbersDecode.cfg` | violation | `RequestNumbersDecode` |

The properties of the registry runs:

- `TablesConsistent`: the tables of `client.ts` meet spec 3 and 4.2-4.3.
  - No literal assigns a key twice.
  - The wire strings are distinct.
  - The three tables are keyed by exactly the enum values.
  - The two lookups are inverse in both directions.
  - The entry of X names `X_REQUEST` and `X_RESPONSE`.
- `RoundTrip`: after the executor has handled the client's command, the
  pattern it resolved is the one the client selected.
- `ContractAgreement`: the payload the executor received has the Request
  shape of what it resolved, and the reply has the Response shape that the
  client's contract promised.
- `RegistryAgreement`: the contract a client holds is the one of the member
  it selected, by name.
- `NoDefaultForUnknown`: a string outside the enumeration never resolves to a
  member, whatever a peer sends.
- `IInv`: the inductive invariant used by the proof.
- `ImplementsCommandContract`: every behaviour of the exchange is a
  behaviour of `CommandContract`.

The registry runs check all 117 patterns against every input string. The
`exchange` run reaches 87,597 distinct states in a few seconds.

`unknown_pattern` checks that an unknown string resolves to `undefined`, the
only explicit failure a plain object read can give (spec 4.2 and 7). TLC finds
a peer that sends `"constructor"`: the executor resolves it to
`Object.prototype.constructor`, an inherited function. Other prototype
names, such as `"hasOwnProperty"`, behave the same way.

The shape runs decode the Response of all 117 patterns, down to every field,
element and map value the types reach (1,227 distinct states).

- **`reply_shapes`** (pass):
  - `StructsAgree`: wherever the client reads an object through a struct
    type, it is the type generated for the Go struct that was written, and
    that type is declared.
  - `FieldsAgree`: that type declares exactly the struct's fields.
- **`interface_names`**: `DeclarationsParse` fails. The three
  `LIVE_STREAM_WORKSPACE_*_RESPONSE` aliases (6342, 6395, 6448) and their
  structs (9187-9191) are named `X_INTERFACE {}`, which is not a TypeScript
  declaration.
- **`nil_pointer`**: `ReplyConforms` fails. A nil pointer is written as
  `null`, but the type is `X|undefined` (8875). Spec 4.5 allows absent or
  null; the type allows only absent.
- **`nil_slice`**: `NullableConforms` reads `null` as absent and still fails.
  A nil slice is written as `null` under a non-optional `T[]` (8887).
- **`array_precedence`**: `ObjectsTyped` fails. `X|undefined[]` parses as
  `X | undefined[]`, so the releases of `cluster/helm-release-list` (8925)
  are typed as an array of `undefined`.
- **`number_precision`**: `ReplyNumbersExact` fails. `totalCount` of the
  audit-log reply (8863) is a Go `int` typed `number`. A count beyond 2^53
  reaches the client rounded, though spec 8 asks for lossless
  deserialization.

The request runs send the Request of all 117 patterns and decode it down to
every field and element (361 distinct states).

- **`request_shapes`** (pass): `RequestStructsAgree`. Wherever the decoder
  fills a Go struct from an object, the client built that object with the
  type generated for that struct, and the two have the same fields. Go
  silently skips unknown fields and leaves missing ones at their zero value,
  so a mismatch here would lose data without an error.
- **`request_precedence`**: `RequestKindsDecode` fails. The `whitelist` of
  `cluster/helm-release-get-workloads` (8896) is declared `X|undefined[]`,
  which admits a single object. `json.Unmarshal` rejects that for the Go
  slice.
- **`request_numbers`**: `RequestNumbersDecode` fails. `limit` of the
  audit-log request (8859) is a Go `int` typed `number`. A payload with
  `limit: 1.5` type-checks, and `json.Unmarshal` rejects it.

Every property of a passing run has a mutant in `PROJECT.json`: a plausible
slip in the generated code that TLC catches. Examples:

- a registry keyed by member name;
- a copy-paste slip in a lookup table;
- a read that defaults to some member;
- a Response alias declared as the Request's struct;
- a struct declaration missing its last field.

## Proofs

`PatternRegistryProofs.tla` proves these theorems for all tables, of any size.
Each theorem assumes only the table facts it needs. `PatternRegistry.tla`
splits `TablesConsistent` into three such facts:

- `LookupsConsistent`: no literal assigns a key twice (`KeysDistinct`), and
  `StringToPattern[PatternToString[p]] = p` for every member `p`;
- `RegistryCovers`: every member has an `IPatternConfig` entry;
- `RegistryNamesOwn`: the entry of `Pattern.X` names `X_REQUEST` and
  `X_RESPONSE`.

`TablesSplit` proves that `TablesConsistent` implies all three. The split
shows what each table is responsible for:

- The round trip and the refinement rest on the two lookups alone.
- An `IPatternConfig` that disagreed with the enum could break only what
  the client is promised (`ContractAgreement`, `RegistryAgreement`). It
  could not break which command is executed.

The theorems:

- **`TypeCorrect`**: `Spec => []TypeOK`, assuming `KeysDistinct` (no literal
  assigns a key twice). No run checks `TypeOK` on its own: it is the first
  conjunct of `IInv`, which the `exchange` run checks.
  - It rests on lemmas about object literals. `ObjectLiteralValue` says that,
    with distinct keys, each key maps to its entry. `ObjectLiteralRange` says
    that each value is a value of some entry.
  - It also rests on `GetType` and `TableRanges`.
- **`InductiveInvariant`**: `Spec => []IInv`, assuming `LookupsConsistent`.
  - `RoundTrip` alone is not inductive: to resolve correctly, `Execute`
    needs to know that the command in transit is the client's and carries
    `PatternToString[selected]`.
  - `IInv` adds these facts, on which the proof rests:
    - a client that has selected holds `PatternInfo` of a member;
    - the command in transit carries that member's wire string and Request
      shape;
    - after execution, the handled command and its reply agree with the
      client's contract;
    - the executor's result is always a `StringToPattern` read of a string;
    - a command of the client's in transit is one the client is waiting
      for, so a client command is never executed after the client moved on.
  - TLC checks `IInv` in the `exchange` run.
  - `IInvInductive` proves it preserved, one step per action.
  - `MemberFacts` turns `LookupsConsistent` into the facts each step needs.
  - `IPatternConfig` appears in `IInv` only through `PatternInfo`, so no step
    needs a fact about it.
- **`RoundTripOnLookups`**: `Spec => []RoundTrip`, assuming
  `LookupsConsistent`. It follows from `IInv`.
- **`WireStringsDistinct`**: under `LookupsConsistent`, two members never
  share a wire string. `EnumInjective` therefore follows from the lookups.
- **`ContractsAgree`**: `Spec => []ContractAgreement`, assuming
  `LookupsConsistent` and `RegistryCovers`.
  - `ContractFromIInv` adds `RegistryCovers` to `IInv`. With it, the
    client's contract is an entry of `IPatternConfig`, so it is defined.
- **`UnknownNeverMember`**: `Spec => []NoDefaultForUnknown`, assuming
  `LookupsConsistent` and `DOMAIN StringToPattern \subseteq EnumValues`.
- **`RegistryAgrees`**: `Spec => []RegistryAgreement`, assuming all three
  table facts.
  - `ContractOfMember` shows that the contract of a member names that
    member's own aliases. It needs `RegistryCovers` and `RegistryNamesOwn`.
  - `IInv` gives that the client's contract is `PatternInfo` of a member.
- **`ExchangeSafe`**: `Spec => [](RoundTrip /\ ContractAgreement /\
  NoDefaultForUnknown)`, assuming `TablesConsistent`. It combines the three
  theorems above through `TablesSplit`.
- **`RefinesCommandContract`**: `Spec => ImplementsCommandContract`,
  assuming `LookupsConsistent`. The argument has three parts:
  - the initial state maps to `Command!Init`;
  - `CommandStep` shows that under `IInv` every step maps to a step of
    `CommandContract`, or to a stutter:
    - `Send` is `Call(selected)`;
    - the execution of the client's command is `Respond`;
    - `Complete` is `Return`;
  - `ExecuteResolves` gives the fact the `Respond` case needs: while the
    client's command is in transit, `StringToPattern` resolves its wire
    string to the selection. `IInvInductive` cites it too.

  The abstract command's shapes are mapped from `PatternInfo`, whatever
  `IPatternConfig` holds. The refinement therefore says the command keeps
  the contract the client was given. Whether that contract is the right one
  is `RegistryAgreement`.
- **`CommandSafe`**, in `CommandContractProofs.tla`: `Spec => []CommandInv`
  for every set of patterns and every assignment of shapes. `CommandInv` is
  inductive as it stands (`CommandInvInductive`).

Every invariant and every temporal property of the `exchange` run is
therefore proved, not only checked.

None of these hypotheses holds only vacuously. Each follows from
`TablesConsistent` (`TablesSplit`), and the `generated_tables` run evaluates
`TablesConsistent` on the real tables, as the assumption
`GeneratedTablesConsistent`. The proofs therefore cover every regeneration
of the file that meets the facts they name. The run covers this one.

Only model-checked:

- Everything in `ShapeTypes`, `Shapes` and `Requests`. The parser,
  `Written`, `Encode`, `Accepts` and `NullAsAbsent`
  are recursive over types and values. Proving what they compute for every
  input needs induction over data, which the installed provers cannot do
  (the library's induction theorems take an operator parameter). A module
  that declares RECURSIVE operators also loses the SMT backend. The shape
  properties are therefore established for this file's 234 aliases and 460
  declarations by exhaustive TLC runs. These are the invariants
  `StructsAgree`, `FieldsAgree` and `RequestStructsAgree`. Each rests on
  what `Encode` or `Written` produces for a type, so no inductive
  invariant avoids the recursive operators.
- Liveness: there is none to check (see below).

## Not modelled

- **What the doc-comment schema does not record.** This covers `omitempty`,
  `[]byte` (written as base64, recorded as an array of `uint`) and custom
  marshalers such as `time.Time` (written as a string, recorded as a struct
  with no properties). The model is translated from the schema, so it
  cannot see these.
- **The transport and the executor.** They are not in this repository. Only
  the single-command exchange above is modelled. There is no concurrency in
  the module itself (spec 5).
- **Liveness and fairness.** Nothing in the code schedules, waits or
  retries. Every object is built once, at load time. No fairness is
  justified, so none is assumed, and no liveness property is stated. The
  exchange's progress would depend on the transport and the executor, and
  neither is in this repository.
