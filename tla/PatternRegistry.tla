-------------------------- MODULE PatternRegistry --------------------------
(***************************************************************************)
(* The pattern-keyed contract registry of src/generated/client.ts and one *)
(* command exchange built on it.                                           *)
(*                                                                         *)
(* The four tables of the file are constants, each given as the sequence  *)
(* of its entries in source order: `enum Pattern`, the object literals    *)
(* `StringToPattern` and `PatternToString`, and `interface                *)
(* IPatternConfig`.  What a table is at run time is derived from its      *)
(* entries by the JavaScript rules the code is subject to: an object      *)
(* literal assigns its properties left to right, a computed key           *)
(* `[Pattern.X]` is the string value of member X, and a property read     *)
(* falls back to Object.prototype before it yields undefined.             *)
(*                                                                         *)
(* The exchange is the data flow of the contract layer: a client selects  *)
(* a Pattern, takes its contract from PatternInfo, encodes it with        *)
(* PatternToString and sends (patternString, payload); the executor       *)
(* resolves the string with StringToPattern, takes its own contract and   *)
(* replies with an envelope.  Other peers may send any string.            *)
(***************************************************************************)
EXTENDS Naturals, Sequences

CONSTANTS
    PatternEnum,             \* enum Pattern: <<member, value>>
    StringToPatternEntries,  \* StringToPattern: <<key, member named by Pattern.X>>
    PatternToStringEntries,  \* PatternToString: <<member of [Pattern.X], value>>
    PatternConfigEntries,    \* IPatternConfig: <<member, Request alias, Response alias>>
    ProtoKeys,               \* property names inherited from Object.prototype
    WireInputs,              \* strings a peer may send as a pattern
    Undefined,               \* the JavaScript value undefined
    Inherited                \* a function inherited from Object.prototype

\* A value a property read can yield.
Value == STRING \cup {Undefined, Inherited}

\* A contract: the names of the Request and Response types of a pattern.
Contract == [Request : STRING, Response : STRING]

\* A command on the wire: (patternString, payload shape) and its sender.
Message ==
    [wire : Value, payload : STRING \cup {Undefined}, origin : {"client", "peer"}]

ASSUME TablesAssumption ==
    /\ PatternEnum \in Seq(STRING \X STRING)
    /\ StringToPatternEntries \in Seq(STRING \X STRING)
    /\ PatternToStringEntries \in Seq(STRING \X STRING)
    /\ PatternConfigEntries \in Seq(STRING \X STRING \X STRING)
    /\ ProtoKeys \subseteq STRING
    /\ WireInputs \subseteq STRING
    /\ Undefined \notin STRING
    /\ Inherited \notin STRING
    /\ Undefined # Inherited
    /\ Undefined \notin Contract \cup Message

(***************************************************************************)
(* JavaScript objects.                                                     *)
(***************************************************************************)
\* The keys an entry sequence defines.
Keys(entries) == {entries[i][1] : i \in DOMAIN entries}

\* The entry that assigns key k last; a later property overwrites an earlier.
LastIndex(entries, k) ==
    CHOOSE i \in DOMAIN entries :
        /\ entries[i][1] = k
        /\ \A j \in DOMAIN entries : j > i => entries[j][1] # k

\* The object an object literal (or an enum declaration) evaluates to.
ObjectLiteral(entries) ==
    [k \in Keys(entries) |-> entries[LastIndex(entries, k)][2]]

\* ToPropertyKey: a non-string used as a key is converted to a string.
PropertyKey(v) ==
    CASE v = Undefined -> "undefined"
      [] v = Inherited -> "function () { [native code] }"
      [] OTHER         -> v

\* Mutant of Get: a key that is missing falls back to some value of the
\* object instead of undefined (a lookup that silently defaults).
GetWithDefault(obj, v) ==
    LET k == PropertyKey(v)
    IN  IF k \in DOMAIN obj THEN obj[k]
        ELSE IF k \in ProtoKeys THEN Inherited
        ELSE obj[CHOOSE x \in DOMAIN obj : TRUE]

\* obj[v]: an own property, else one of Object.prototype, else undefined.
Get(obj, v) ==
    LET k == PropertyKey(v)
    IN  IF k \in DOMAIN obj THEN obj[k]
        ELSE IF k \in ProtoKeys THEN Inherited
        ELSE Undefined

(***************************************************************************)
(* The tables at run time.                                                 *)
(***************************************************************************)
\* enum Pattern: member -> value (a string enum has no reverse mapping).
Pattern == ObjectLiteral(PatternEnum)

\* The wire strings of the enumeration.
EnumValues == {Pattern[m] : m \in DOMAIN Pattern}

\* Pattern.X
EnumValue(m) == Get(Pattern, m)

\* Mutant of StringToPattern: the last entry names the member of the entry
\* before it (a copy-paste slip in the generated table).
StringToPatternCopySlip ==
    LET n == Len(StringToPatternEntries)
    IN  ObjectLiteral([i \in 1 .. n |->
            <<StringToPatternEntries[i][1],
              EnumValue(StringToPatternEntries[IF i = n THEN i - 1 ELSE i][2])>>])

\* StringToPattern: key -> the value of Pattern.X.
StringToPatternProps ==
    [i \in DOMAIN StringToPatternEntries |->
        <<StringToPatternEntries[i][1], EnumValue(StringToPatternEntries[i][2])>>]

StringToPattern == ObjectLiteral(StringToPatternProps)

\* Mutant of PatternToString: the first entry carries the string of the
\* second (a copy-paste slip in the generated table).
PatternToStringCopySlip ==
    ObjectLiteral([i \in 1 .. Len(PatternToStringEntries) |->
        <<PropertyKey(EnumValue(PatternToStringEntries[i][1])),
          PatternToStringEntries[IF i = 1 THEN 2 ELSE i][2]>>])

\* PatternToString: the key [Pattern.X] is the value of member X.
PatternToStringProps ==
    [i \in DOMAIN PatternToStringEntries |->
        <<PropertyKey(EnumValue(PatternToStringEntries[i][1])),
          PatternToStringEntries[i][2]>>]

PatternToString == ObjectLiteral(PatternToStringProps)

\* Mutant of IPatternConfig: the last entry names the Response type of the
\* entry before it (a copy-paste slip in the generated interface).
IPatternConfigCopySlip ==
    LET n == Len(PatternConfigEntries)
    IN  ObjectLiteral([i \in 1 .. n |->
            <<PropertyKey(EnumValue(PatternConfigEntries[i][1])),
              [Request  |-> PatternConfigEntries[i][2],
               Response |-> PatternConfigEntries[IF i = n THEN i - 1 ELSE i][3]]>>])

\* IPatternConfig: [Pattern.X] -> {Request, Response}.
PatternConfigProps ==
    [i \in DOMAIN PatternConfigEntries |->
        <<PropertyKey(EnumValue(PatternConfigEntries[i][1])),
          [Request  |-> PatternConfigEntries[i][2],
           Response |-> PatternConfigEntries[i][3]]>>]

IPatternConfig == ObjectLiteral(PatternConfigProps)

\* keyof IPatternConfig
PatternKey == DOMAIN IPatternConfig

\* Mutant of PatternInfo: the contract loses its Response half.
PatternInfoNoResponse(k) ==
    IF k \in PatternKey
    THEN [Request |-> IPatternConfig[k].Request, Response |-> Undefined]
    ELSE Undefined

\* The contract PatternInfo(k) is typed with; it returns {} at run time and
\* a key outside PatternKey has no contract.
PatternInfo(k) == IF k \in PatternKey THEN IPatternConfig[k] ELSE Undefined

\* The Request shape of a contract, undefined when there is none.
RequestOf(c) == IF c = Undefined THEN Undefined ELSE c.Request

\* The Response shape of a contract, undefined when there is none.
ResponseOf(c) == IF c = Undefined THEN Undefined ELSE c.Response

(***************************************************************************)
(* The command exchange.                                                   *)
(***************************************************************************)
VARIABLES
    cphase,    \* client: "idle", "typed" (contract taken) or "waiting"
    selected,  \* client: the Pattern value it selected
    contract,  \* client: PatternInfo(selected)
    chan,      \* the command in transit, or Undefined
    received,  \* executor: the last command it handled, or Undefined
    resolved,  \* executor: StringToPattern[received.wire]
    reply      \* the envelope's Response shape for the client, or Undefined

vars == <<cphase, selected, contract, chan, received, resolved, reply>>

Init ==
    /\ cphase = "idle"
    /\ selected = Undefined
    /\ contract = Undefined
    /\ chan = Undefined
    /\ received = Undefined
    /\ resolved = Undefined
    /\ reply = Undefined

\* The client selects a Pattern and takes its contract from PatternInfo.
Select(p) ==
    /\ cphase = "idle"
    /\ chan = Undefined
    /\ selected' = p
    /\ contract' = PatternInfo(p)
    /\ cphase' = "typed"
    /\ UNCHANGED <<chan, received, resolved, reply>>

\* The client sends (PatternToString[selected], payload of the Request shape).
Send ==
    /\ cphase = "typed"
    /\ chan = Undefined
    /\ chan' = [wire    |-> Get(PatternToString, selected),
                payload |-> RequestOf(contract),
                origin  |-> "client"]
    /\ cphase' = "waiting"
    /\ UNCHANGED <<selected, contract, received, resolved, reply>>

\* Another peer sends an arbitrary string as a pattern.
PeerSend(s) ==
    /\ cphase = "idle"
    /\ chan = Undefined
    /\ chan' = [wire |-> s, payload |-> Undefined, origin |-> "peer"]
    /\ UNCHANGED <<cphase, selected, contract, received, resolved, reply>>

\* The executor resolves the string and answers with its own contract.
Execute ==
    /\ chan # Undefined
    /\ received' = chan
    /\ resolved' = Get(StringToPattern, chan.wire)
    /\ reply' = IF chan.origin = "client"
                THEN ResponseOf(PatternInfo(Get(StringToPattern, chan.wire)))
                ELSE Undefined
    /\ chan' = Undefined
    /\ UNCHANGED <<cphase, selected, contract>>

\* The client takes the envelope of its command; the command's pattern and
\* contract go out of scope with it.
Complete ==
    /\ cphase = "waiting"
    /\ chan = Undefined
    /\ cphase' = "idle"
    /\ selected' = Undefined
    /\ contract' = Undefined
    /\ reply' = Undefined
    /\ UNCHANGED <<chan, received, resolved>>

Next ==
    \/ \E p \in EnumValues : Select(p)
    \/ Send
    \/ \E s \in WireInputs : PeerSend(s)
    \/ Execute
    \/ Complete

Spec == Init /\ [][Next]_vars

(***************************************************************************)
(* Properties.                                                             *)
(***************************************************************************)
\* The type invariant: every variable holds what the exchange can produce.
TypeOK ==
    /\ cphase \in {"idle", "typed", "waiting"}
    /\ selected \in STRING \cup {Undefined}
    /\ contract \in Contract \cup {Undefined}
    /\ chan \in Message \cup {Undefined}
    /\ received \in Message \cup {Undefined}
    /\ resolved \in Value
    /\ reply \in STRING \cup {Undefined}

\* Each entry sequence assigns every key once.
Distinct(entries) ==
    \A i, j \in DOMAIN entries : entries[i][1] = entries[j][1] => i = j

\* No object literal of the file assigns a key twice.
KeysDistinct ==
    /\ Distinct(PatternEnum)
    /\ Distinct(StringToPatternProps)
    /\ Distinct(PatternToStringProps)
    /\ Distinct(PatternConfigProps)

\* The wire strings of the members are pairwise distinct.
EnumInjective ==
    \A i, j \in DOMAIN PatternEnum : PatternEnum[i][2] = PatternEnum[j][2] => i = j

\* Spec 3, 4.2 and 4.3 of the four generated tables: StringToPattern,
\* PatternToString and IPatternConfig are keyed by exactly the wire strings
\* of the enumeration (exhaustive and closed), the two lookups are inverse
\* in both directions, and the entry of member X names X's own Request and
\* Response types.  Nothing in TypeScript checks any of this.
TablesConsistent ==
    /\ KeysDistinct
    /\ EnumInjective
    /\ DOMAIN StringToPattern = EnumValues
    /\ DOMAIN PatternToString = EnumValues
    /\ PatternKey = EnumValues
    /\ \A s \in DOMAIN StringToPattern :
          /\ StringToPattern[s] \in EnumValues
          /\ PatternToString[StringToPattern[s]] = s
    /\ \A m \in DOMAIN Pattern :
          /\ PatternToString[Pattern[m]] \in DOMAIN StringToPattern
          /\ StringToPattern[PatternToString[Pattern[m]]] = Pattern[m]
          /\ IPatternConfig[Pattern[m]] =
                [Request |-> m \o "_REQUEST", Response |-> m \o "_RESPONSE"]

\* The part of TablesConsistent the round trip rests on (spec 4.2): no
\* object literal assigns a key twice, and PatternToString takes every
\* member to a string that StringToPattern takes back to it.
\* IPatternConfig plays no part.
LookupsConsistent ==
    /\ KeysDistinct
    /\ \A p \in EnumValues :
          /\ p \in DOMAIN PatternToString
          /\ PatternToString[p] \in DOMAIN StringToPattern
          /\ StringToPattern[PatternToString[p]] = p

\* The part of TablesConsistent about IPatternConfig (spec 4.3): every
\* member has an entry, and the entry of X names X's own Request and
\* Response types.
RegistryCovers == EnumValues \subseteq PatternKey

RegistryNamesOwn ==
    \A m \in DOMAIN Pattern :
        IPatternConfig[Pattern[m]] =
            [Request |-> m \o "_REQUEST", Response |-> m \o "_RESPONSE"]

\* Spec 8 round trip over the wire: once the executor has handled the
\* client's command, what it resolved from PatternToString[selected] is
\* the Pattern the client selected, and the command handled is the client's.
RoundTrip ==
    cphase = "waiting" /\ chan = Undefined =>
        /\ received # Undefined
        /\ received.origin = "client"
        /\ resolved = selected

\* Spec 4.3 and 7 (contract mismatch): the client holds a contract for the
\* Pattern it selected, the payload the executor received has the Request
\* shape of the Pattern the executor resolved, and the envelope it answered
\* with has the Response shape the client expects.
ContractAgreement ==
    /\ cphase # "idle" => contract # Undefined
    /\ cphase = "waiting" /\ chan = Undefined =>
        /\ received.payload = RequestOf(PatternInfo(resolved))
        /\ reply = ResponseOf(contract)

\* The exchange, step by step: a client that has selected holds the
\* contract PatternInfo gave it for a member; its command carries
\* PatternToString of that member and the contract's Request shape; once
\* handled, the executor resolved the member and answered with the
\* Response shape of the same contract; and whatever the executor handled
\* was a string it resolved by a StringToPattern read; and a command of
\* the client's in transit is one the client is waiting for.  It implies
\* RoundTrip, ContractAgreement and NoDefaultForUnknown and, unlike them,
\* is preserved by every step.
IInv ==
    /\ TypeOK
    /\ chan # Undefined => chan.wire \in STRING
    /\ received # Undefined =>
          /\ received.wire \in STRING
          /\ resolved = Get(StringToPattern, received.wire)
    /\ cphase # "idle" =>
          /\ selected \in EnumValues
          /\ contract = PatternInfo(selected)
    /\ cphase = "typed" => chan = Undefined
    /\ chan # Undefined /\ chan.origin = "client" => cphase = "waiting"
    /\ cphase = "waiting" /\ chan # Undefined =>
          /\ chan.origin = "client"
          /\ chan.wire = PatternToString[selected]
          /\ chan.payload = RequestOf(contract)
    /\ cphase = "waiting" /\ chan = Undefined =>
          /\ received # Undefined
          /\ received.origin = "client"
          /\ received.payload = RequestOf(contract)
          /\ resolved = selected
          /\ reply = ResponseOf(contract)

\* The member X of enum Pattern whose value is v (TypeScript emits no
\* reverse mapping for a string enum; this is only for stating properties).
MemberOf(v) == CHOOSE m \in DOMAIN Pattern : Pattern[m] = v

\* Spec 3 and 4.3 (a contract is bound to exactly one pattern): the contract
\* the client takes from PatternInfo(Pattern.X) names X's own Request and
\* Response aliases, never those of a neighbouring entry of IPatternConfig.
RegistryAgreement ==
    cphase # "idle" =>
        contract = [Request  |-> MemberOf(selected) \o "_REQUEST",
                    Response |-> MemberOf(selected) \o "_RESPONSE"]

(***************************************************************************)
(* The exchange seen as a typed command (CommandContract).  The client's  *)
(* command is invoked when it is sent, answered when the executor has     *)
(* handled it, and over when the client completes; selecting a pattern,  *)
(* a peer's command and its execution are stutters.                      *)
(***************************************************************************)
CommandPhase ==
    IF cphase # "waiting" THEN "idle"
    ELSE IF chan # Undefined THEN "pending" ELSE "answered"

CommandPayload ==
    IF cphase # "waiting" THEN Undefined
    ELSE IF chan # Undefined THEN chan.payload ELSE received.payload

Command == INSTANCE CommandContract
    WITH Patterns  <- EnumValues,
         Requests  <- [v \in EnumValues |-> RequestOf(PatternInfo(v))],
         Responses <- [v \in EnumValues |-> ResponseOf(PatternInfo(v))],
         None      <- Undefined,
         phase     <- CommandPhase,
         cmd       <- IF cphase = "waiting" THEN selected ELSE Undefined,
         request   <- CommandPayload,
         answer    <- IF CommandPhase = "answered" THEN reply ELSE Undefined

\* Spec 6 and 8: every run of the exchange is a run of a typed command:
\* the client invokes one pattern at a time with the Request shape of that
\* pattern, and the envelope it completes with has the Response shape of
\* the pattern it invoked, whatever PatternToString, StringToPattern and
\* IPatternConfig do on the way.
ImplementsCommandContract == Command!Spec

\* Spec 4.2: a string outside the enumeration never silently resolves to a
\* member, whatever a peer sends (prototype names included).
NoDefaultForUnknown ==
    received # Undefined /\ received.wire \notin EnumValues =>
        resolved \notin EnumValues

\* Spec 4.2 and 7: resolving a string outside the enumeration fails, which
\* the object lookup StringToPattern[s] can only signal by undefined.
UnknownPatternFails ==
    received # Undefined /\ received.wire \notin EnumValues =>
        resolved = Undefined

=============================================================================
