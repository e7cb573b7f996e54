----------------------- MODULE PatternRegistryProofs -----------------------
(***************************************************************************)
(* Proofs about PatternRegistry for tables of every size: the type        *)
(* invariant whenever no object literal assigns a key twice; the round   *)
(* trip, the refinement of CommandContract and the routing of replies    *)
(* whenever PatternToString and StringToPattern are inverse on the       *)
(* members (LookupsConsistent), whatever IPatternConfig holds; contract  *)
(* agreement once IPatternConfig also covers and names every member.     *)
(* All of these follow from TablesConsistent, which TLC checks of the    *)
(* tables of src/generated/client.ts.                                    *)
(***************************************************************************)
EXTENDS PatternRegistry, SequenceTheorems, TLAPS

(***************************************************************************)
(* Object literals.                                                        *)
(***************************************************************************)
\* An object literal whose keys are distinct maps each key to its entry.
LEMMA ObjectLiteralValue ==
    ASSUME NEW e, DOMAIN e \subseteq Nat, Distinct(e), NEW i \in DOMAIN e
    PROVE  /\ e[i][1] \in DOMAIN ObjectLiteral(e)
           /\ ObjectLiteral(e)[e[i][1]] = e[i][2]
<1>1. /\ e[i][1] = e[i][1]
      /\ \A j \in DOMAIN e : j > i => e[j][1] # e[i][1]
    BY DEF Distinct
<1>2. \A k \in DOMAIN e :
         (/\ e[k][1] = e[i][1]
          /\ \A j \in DOMAIN e : j > k => e[j][1] # e[i][1]) => k = i
    BY DEF Distinct
<1>3. LastIndex(e, e[i][1]) = i
    BY <1>1, <1>2 DEF LastIndex
<1>4. QED
    BY <1>3 DEF ObjectLiteral, Keys

\* Every value of an object literal with distinct keys is a value of an entry.
LEMMA ObjectLiteralRange ==
    ASSUME NEW e, NEW T, DOMAIN e \subseteq Nat, Distinct(e),
           \A i \in DOMAIN e : e[i][2] \in T
    PROVE  \A k \in DOMAIN ObjectLiteral(e) : ObjectLiteral(e)[k] \in T
<1> SUFFICES ASSUME NEW k \in DOMAIN ObjectLiteral(e)
             PROVE  ObjectLiteral(e)[k] \in T
    OBVIOUS
<1>1. PICK i \in DOMAIN e : k = e[i][1]
    BY DEF ObjectLiteral, Keys
<1>2. QED
    BY <1>1, ObjectLiteralValue

\* A property read yields a value of the object, Inherited or Undefined.
LEMMA GetType ==
    ASSUME NEW obj, NEW v, \A k \in DOMAIN obj : obj[k] \in Value
    PROVE  Get(obj, v) \in Value
BY DEF Get, Value

(***************************************************************************)
(* The tables.                                                             *)
(***************************************************************************)
\* The entry sequences and the property lists derived from them.
LEMMA EntryShapes ==
    /\ DOMAIN PatternEnum \subseteq Nat
    /\ \A i \in DOMAIN PatternEnum : PatternEnum[i] \in STRING \X STRING
    /\ DOMAIN StringToPatternProps \subseteq Nat
    /\ DOMAIN PatternToStringProps \subseteq Nat
    /\ DOMAIN PatternConfigProps \subseteq Nat
    /\ \A i \in DOMAIN PatternConfigEntries :
          PatternConfigEntries[i] \in STRING \X STRING \X STRING
<1>1. /\ DOMAIN PatternEnum = 1 .. Len(PatternEnum)
      /\ \A i \in DOMAIN PatternEnum : PatternEnum[i] \in STRING \X STRING
    BY TablesAssumption, LenProperties
<1>2. DOMAIN StringToPatternEntries = 1 .. Len(StringToPatternEntries)
    BY TablesAssumption, LenProperties
<1>3. DOMAIN PatternToStringEntries = 1 .. Len(PatternToStringEntries)
    BY TablesAssumption, LenProperties
<1>4. /\ DOMAIN PatternConfigEntries = 1 .. Len(PatternConfigEntries)
      /\ \A i \in DOMAIN PatternConfigEntries :
            PatternConfigEntries[i] \in STRING \X STRING \X STRING
    BY TablesAssumption, LenProperties
<1>5. QED
    BY <1>1, <1>2, <1>3, <1>4
    DEF StringToPatternProps, PatternToStringProps, PatternConfigProps

\* With distinct keys, the tables hold values of the expected kinds.
LEMMA TableRanges ==
    ASSUME KeysDistinct
    PROVE  /\ \A m \in DOMAIN Pattern : Pattern[m] \in STRING
           /\ \A m : EnumValue(m) \in Value
           /\ \A k \in DOMAIN StringToPattern : StringToPattern[k] \in Value
           /\ \A k \in DOMAIN PatternToString : PatternToString[k] \in STRING
           /\ \A k \in DOMAIN IPatternConfig : IPatternConfig[k] \in Contract
<1>1. \A m \in DOMAIN Pattern : Pattern[m] \in STRING
    <2>1. \A i \in DOMAIN PatternEnum : PatternEnum[i][2] \in STRING
        BY EntryShapes
    <2>2. QED
        BY <2>1, EntryShapes, ObjectLiteralRange DEF KeysDistinct, Pattern
<1>2. \A m : EnumValue(m) \in Value
    BY <1>1, GetType DEF EnumValue, Value
<1>3. \A k \in DOMAIN StringToPattern : StringToPattern[k] \in Value
    <2>1. \A i \in DOMAIN StringToPatternProps : StringToPatternProps[i][2] \in Value
        BY <1>2 DEF StringToPatternProps
    <2>2. QED
        BY <2>1, EntryShapes, ObjectLiteralRange
        DEF KeysDistinct, StringToPattern
<1>4. \A k \in DOMAIN PatternToString : PatternToString[k] \in STRING
    <2>1. \A i \in DOMAIN PatternToStringProps : PatternToStringProps[i][2] \in STRING
        BY TablesAssumption, LenProperties, ElementOfSeq DEF PatternToStringProps
    <2>2. QED
        BY <2>1, EntryShapes, ObjectLiteralRange
        DEF KeysDistinct, PatternToString
<1>5. \A k \in DOMAIN IPatternConfig : IPatternConfig[k] \in Contract
    <2>1. \A i \in DOMAIN PatternConfigProps : PatternConfigProps[i][2] \in Contract
        BY EntryShapes DEF PatternConfigProps, Contract
    <2>2. QED
        BY <2>1, EntryShapes, ObjectLiteralRange
        DEF KeysDistinct, IPatternConfig
<1>6. QED
    BY <1>1, <1>2, <1>3, <1>4, <1>5

(***************************************************************************)
(* Type correctness.                                                       *)
(***************************************************************************)
\* Every step of the exchange preserves TypeOK.
LEMMA TypeOKStep ==
    ASSUME KeysDistinct, TypeOK, [Next]_vars
    PROVE  TypeOK'
<1>0. /\ \A m \in DOMAIN Pattern : Pattern[m] \in STRING
      /\ \A k \in DOMAIN StringToPattern : StringToPattern[k] \in Value
      /\ \A k \in DOMAIN PatternToString : PatternToString[k] \in STRING
      /\ \A k \in DOMAIN IPatternConfig : IPatternConfig[k] \in Contract
    BY TableRanges
<1>1. ASSUME NEW p \in EnumValues, Select(p) PROVE TypeOK'
    <2>1. p \in STRING
        BY <1>0 DEF EnumValues
    <2>2. PatternInfo(p) \in Contract \cup {Undefined}
        BY <1>0 DEF PatternInfo, PatternKey
    <2>3. QED
        BY <1>1, <2>1, <2>2 DEF Select, TypeOK
<1>2. CASE Send
    <2>1. Get(PatternToString, selected) \in Value
        BY <1>0, GetType DEF Value
    <2>2. RequestOf(contract) \in STRING \cup {Undefined}
        BY DEF TypeOK, RequestOf, Contract
    <2>3. QED
        BY <1>2, <2>1, <2>2 DEF Send, TypeOK, Message
<1>3. ASSUME NEW s \in WireInputs, PeerSend(s) PROVE TypeOK'
    BY <1>3, TablesAssumption DEF PeerSend, TypeOK, Message, Value
<1>4. CASE Execute
    <2>1. Get(StringToPattern, chan.wire) \in Value
        BY <1>0, GetType
    <2>2. ResponseOf(PatternInfo(Get(StringToPattern, chan.wire)))
            \in STRING \cup {Undefined}
        BY <1>0 DEF ResponseOf, PatternInfo, PatternKey, Contract
    <2>3. chan \in Message
        BY <1>4 DEF Execute, TypeOK
    <2>4. QED
        BY <1>4, <2>1, <2>2, <2>3 DEF Execute, TypeOK
<1>5. CASE Complete
    BY <1>5 DEF Complete, TypeOK
<1>6. CASE UNCHANGED vars
    BY <1>6 DEF vars, TypeOK
<1>7. QED
    BY <1>1, <1>2, <1>3, <1>4, <1>5, <1>6 DEF Next

\* Spec => []TypeOK, for all tables whose object literals assign each key
\* once (TypeScript rejects a literal key assigned twice; TLC checks the
\* computed keys of this file as part of TablesConsistent).
THEOREM TypeCorrect ==
    ASSUME KeysDistinct
    PROVE  Spec => []TypeOK
<1>1. Init => TypeOK
    BY TablesAssumption DEF Init, TypeOK, Value
<1>2. TypeOK /\ [Next]_vars => TypeOK'
    BY TypeOKStep
<1>3. QED
    BY <1>1, <1>2, PTL DEF Spec

(***************************************************************************)
(* Round trip and contract agreement.                                      *)
(***************************************************************************)
\* Reading a string key the object has yields its value.
LEMMA GetPresent ==
    ASSUME NEW obj, NEW k \in STRING, k \in DOMAIN obj
    PROVE  Get(obj, k) = obj[k]
BY TablesAssumption DEF Get, PropertyKey

\* TablesConsistent, which TLC checks of the generated tables, contains
\* each of the weaker table facts the theorems below rest on.
LEMMA TablesSplit ==
    ASSUME TablesConsistent
    PROVE  /\ LookupsConsistent
           /\ RegistryCovers
           /\ RegistryNamesOwn
<1>1. LookupsConsistent
    <2> SUFFICES ASSUME NEW p \in EnumValues
                 PROVE  /\ p \in DOMAIN PatternToString
                        /\ PatternToString[p] \in DOMAIN StringToPattern
                        /\ StringToPattern[PatternToString[p]] = p
        BY DEF TablesConsistent, LookupsConsistent
    <2>1. PICK m \in DOMAIN Pattern : p = Pattern[m]
        BY DEF EnumValues
    <2>2. QED
        BY <2>1 DEF TablesConsistent
<1>2. RegistryCovers
    BY DEF TablesConsistent, RegistryCovers
<1>3. RegistryNamesOwn
    BY DEF TablesConsistent, RegistryNamesOwn
<1>4. QED
    BY <1>1, <1>2, <1>3

\* What consistent lookups give a member: a wire string that
\* StringToPattern maps back to it.
LEMMA MemberFacts ==
    ASSUME LookupsConsistent, NEW p \in EnumValues
    PROVE  /\ p \in STRING
           /\ p \in DOMAIN PatternToString
           /\ PatternToString[p] \in STRING
           /\ PatternToString[p] \in DOMAIN StringToPattern
           /\ StringToPattern[PatternToString[p]] = p
<1>1. PICK m \in DOMAIN Pattern : p = Pattern[m]
    BY DEF EnumValues
<1>2. /\ \A x \in DOMAIN Pattern : Pattern[x] \in STRING
      /\ \A k \in DOMAIN PatternToString : PatternToString[k] \in STRING
    BY TableRanges DEF LookupsConsistent
<1>3. QED
    BY <1>1, <1>2 DEF LookupsConsistent

\* Spec 4.2, whenever the lookups are consistent: no two members of
\* Pattern are sent as the same wire string, so the string a command
\* carries identifies the member it was sent for.
THEOREM WireStringsDistinct ==
    ASSUME LookupsConsistent,
           NEW p \in EnumValues, NEW q \in EnumValues,
           PatternToString[p] = PatternToString[q]
    PROVE  p = q
<1>1. /\ StringToPattern[PatternToString[p]] = p
      /\ StringToPattern[PatternToString[q]] = q
    BY DEF LookupsConsistent
<1>2. QED
    BY <1>1

\* While the client's command is in transit, the executor resolves its
\* wire string to the client's selection.
LEMMA ExecuteResolves ==
    ASSUME LookupsConsistent, IInv, cphase = "waiting", chan # Undefined
    PROVE  /\ selected \in EnumValues
           /\ contract = PatternInfo(selected)
           /\ chan.origin = "client"
           /\ chan.payload = RequestOf(contract)
           /\ Get(StringToPattern, chan.wire) = selected
<1>1. /\ selected \in EnumValues
      /\ contract = PatternInfo(selected)
      /\ chan.origin = "client"
      /\ chan.wire = PatternToString[selected]
      /\ chan.payload = RequestOf(contract)
    BY DEF IInv
<1>2. /\ PatternToString[selected] \in STRING
      /\ PatternToString[selected] \in DOMAIN StringToPattern
      /\ StringToPattern[PatternToString[selected]] = selected
    BY <1>1, MemberFacts
<1>3. Get(StringToPattern, PatternToString[selected])
        = StringToPattern[PatternToString[selected]]
    BY <1>2, GetPresent
<1>4. QED
    BY <1>1, <1>2, <1>3

\* IInv is inductive whenever the two lookups are consistent, whatever
\* IPatternConfig holds.
LEMMA IInvInductive ==
    ASSUME LookupsConsistent
    PROVE  IInv /\ [Next]_vars => IInv'
<1> SUFFICES ASSUME IInv, [Next]_vars PROVE IInv'
    OBVIOUS
<1>0. KeysDistinct
    BY DEF LookupsConsistent
<1>1. TypeOK'
    BY <1>0, TypeOKStep DEF IInv

<1>2. ASSUME NEW p \in EnumValues, Select(p) PROVE IInv'
    BY <1>1, <1>2 DEF Select, IInv
<1>3. CASE Send
    <2>1. /\ selected \in EnumValues
          /\ contract = PatternInfo(selected)
          /\ chan = Undefined
        BY <1>3 DEF Send, IInv
    <2>2. /\ Get(PatternToString, selected) = PatternToString[selected]
          /\ PatternToString[selected] \in STRING
        BY <2>1, MemberFacts, GetPresent
    <2>3. chan' # Undefined
        <3>1. RequestOf(contract) \in STRING \cup {Undefined}
            BY <2>1, MemberFacts DEF IInv, TypeOK, RequestOf, Contract
        <3>2. chan' \in Message
            BY <1>3, <2>2, <3>1 DEF Send, Message, Value
        <3>3. QED
            BY <3>2, TablesAssumption
    <2>4. QED
        BY <1>1, <1>3, <2>1, <2>2, <2>3 DEF Send, IInv
<1>4. ASSUME NEW s \in WireInputs, PeerSend(s) PROVE IInv'
    BY <1>1, <1>4, TablesAssumption DEF PeerSend, IInv
<1>5. CASE Execute
    <2>1. received' # Undefined
        BY <1>1, <1>5, TablesAssumption DEF Execute, IInv, TypeOK
    <2>2. CASE cphase = "waiting"
        <3>1. /\ selected \in EnumValues
              /\ contract = PatternInfo(selected)
              /\ chan.origin = "client"
              /\ chan.payload = RequestOf(contract)
              /\ Get(StringToPattern, chan.wire) = selected
            BY <1>5, <2>2, ExecuteResolves DEF Execute
        <3>2. chan.wire \in STRING
            BY <1>5 DEF Execute, IInv
        <3>3. QED
            BY <1>1, <1>5, <2>1, <2>2, <3>1, <3>2 DEF Execute, IInv
    <2>3. CASE cphase # "waiting"
        <3>1. cphase = "idle"
            BY <1>5, <2>3 DEF Execute, IInv, TypeOK
        <3>2. QED
            BY <1>1, <1>5, <2>1, <3>1 DEF Execute, IInv
    <2>4. QED
        BY <2>2, <2>3
<1>6. CASE Complete
    BY <1>1, <1>6 DEF Complete, IInv
<1>7. CASE UNCHANGED vars
    BY <1>1, <1>7 DEF vars, IInv
<1>8. QED
    BY <1>2, <1>3, <1>4, <1>5, <1>6, <1>7 DEF Next

\* Once every member has an IPatternConfig entry, the contract the client
\* holds while a command is under way is defined, and IInv then gives spec
\* 4.3's agreement of payload and reply with it.
LEMMA ContractFromIInv ==
    ASSUME LookupsConsistent, RegistryCovers, IInv
    PROVE  ContractAgreement
<1>1. cphase # "idle" => contract # Undefined
    <2> SUFFICES ASSUME cphase # "idle" PROVE contract # Undefined
        OBVIOUS
    <2>1. /\ selected \in PatternKey
          /\ contract = IPatternConfig[selected]
        BY DEF IInv, RegistryCovers, PatternInfo
    <2>2. QED
        BY <2>1, TableRanges, TablesAssumption
        DEF LookupsConsistent, PatternKey
<1>2. QED
    BY <1>1 DEF IInv, ContractAgreement

\* Init establishes IInv for any tables.
LEMMA InitIInv == Init => IInv
BY TablesAssumption DEF Init, IInv, TypeOK, Value

\* IInv, the inductive invariant of the exchange, holds in every state
\* whenever PatternToString and StringToPattern are inverse on the members:
\* what PatternInfo gave the client, what its command carries, and what the
\* executor resolved and answered agree at every step of Select, Send,
\* PeerSend, Execute and Complete, whatever IPatternConfig holds.
THEOREM InductiveInvariant ==
    ASSUME LookupsConsistent
    PROVE  Spec => []IInv
BY InitIInv, IInvInductive, PTL DEF Spec

\* Spec 8 round trip (RoundTrip) on the lookups alone: the executor
\* resolves from PatternToString of the client's selection that selection.
\* A stale or incomplete IPatternConfig cannot break it.
THEOREM RoundTripOnLookups ==
    ASSUME LookupsConsistent
    PROVE  Spec => []RoundTrip
<1>1. IInv => RoundTrip
    BY DEF IInv, RoundTrip
<1>2. QED
    BY <1>1, InductiveInvariant, PTL

\* Spec 4.3 and 7 (ContractAgreement) when the lookups are consistent and
\* every member has an IPatternConfig entry: the payload the executor
\* receives has the Request shape of the pattern it resolved, and the
\* envelope has the Response shape the client's contract promised.
THEOREM ContractsAgree ==
    ASSUME LookupsConsistent, RegistryCovers
    PROVE  Spec => []ContractAgreement
<1>1. IInv => ContractAgreement
    BY ContractFromIInv
<1>2. QED
    BY <1>1, InductiveInvariant, PTL

\* Spec 4.2 (NoDefaultForUnknown) when StringToPattern is keyed by the
\* wire strings of the members only: a string outside the enumeration that
\* a peer sends never resolves to a member, prototype names included.
THEOREM UnknownNeverMember ==
    ASSUME LookupsConsistent, DOMAIN StringToPattern \subseteq EnumValues
    PROVE  Spec => []NoDefaultForUnknown
<1>1. IInv => NoDefaultForUnknown
    <2> SUFFICES ASSUME IInv, received # Undefined,
                        received.wire \notin EnumValues
                 PROVE  resolved \notin EnumValues
        BY DEF NoDefaultForUnknown
    <2>1. received.wire \notin DOMAIN StringToPattern
        OBVIOUS
    <2>2. resolved \in {Inherited, Undefined}
        BY <2>1, TablesAssumption DEF IInv, Get, PropertyKey
    <2>3. EnumValues \subseteq STRING
        BY TableRanges DEF LookupsConsistent, EnumValues
    <2>4. QED
        BY <2>2, <2>3, TablesAssumption
<1>2. QED
    BY <1>1, InductiveInvariant, PTL

\* Spec 8 round trip, spec 4.3 contract agreement and spec 4.2 for strings
\* outside the enumeration together, for all tables that satisfy
\* TablesConsistent (the predicate TLC checks of the generated tables).
THEOREM ExchangeSafe ==
    ASSUME TablesConsistent
    PROVE  Spec => [](RoundTrip /\ ContractAgreement /\ NoDefaultForUnknown)
<1>1. /\ LookupsConsistent
      /\ RegistryCovers
      /\ DOMAIN StringToPattern \subseteq EnumValues
    BY TablesSplit DEF TablesConsistent
<1>2. QED
    BY <1>1, RoundTripOnLookups, ContractsAgree, UnknownNeverMember, PTL

\* The contract IPatternConfig holds for the value of member X names X's
\* own aliases.
LEMMA ContractOfMember ==
    ASSUME RegistryCovers, RegistryNamesOwn, NEW p \in EnumValues
    PROVE  PatternInfo(p) = [Request  |-> MemberOf(p) \o "_REQUEST",
                             Response |-> MemberOf(p) \o "_RESPONSE"]
<1>1. \E m \in DOMAIN Pattern : Pattern[m] = p
    BY DEF EnumValues
<1>2. /\ MemberOf(p) \in DOMAIN Pattern
      /\ Pattern[MemberOf(p)] = p
    BY <1>1 DEF MemberOf
<1>3. p \in PatternKey
    BY DEF RegistryCovers
<1>4. QED
    BY <1>2, <1>3 DEF RegistryNamesOwn, PatternInfo

\* Spec 3 and 4.3 (RegistryAgreement) when the lookups are consistent and
\* IPatternConfig has an entry for every member naming that member's own
\* aliases: the contract the client takes from PatternInfo(Pattern.X) names
\* X's own Request and Response aliases in every state.
THEOREM RegistryAgrees ==
    ASSUME LookupsConsistent, RegistryCovers, RegistryNamesOwn
    PROVE  Spec => []RegistryAgreement
<1>1. IInv => RegistryAgreement
    <2> SUFFICES ASSUME IInv, cphase # "idle"
                 PROVE  contract = [Request  |-> MemberOf(selected) \o "_REQUEST",
                                    Response |-> MemberOf(selected) \o "_RESPONSE"]
        BY DEF RegistryAgreement
    <2>1. /\ selected \in EnumValues
          /\ contract = PatternInfo(selected)
        BY DEF IInv
    <2>2. QED
        BY <2>1, ContractOfMember
<1>2. QED
    BY <1>1, InductiveInvariant, PTL

(***************************************************************************)
(* Refinement of CommandContract.                                         *)
(***************************************************************************)
\* Every step of the exchange is a step of CommandContract or leaves the
\* command unchanged.
LEMMA CommandStep ==
    ASSUME LookupsConsistent, IInv, [Next]_vars
    PROVE  [Command!Next]_Command!vars
<1> USE DEF Command!vars
<1>1. ASSUME NEW p \in EnumValues, Select(p) PROVE UNCHANGED Command!vars
    BY <1>1 DEF Select, CommandPhase, CommandPayload
<1>2. CASE Send
    <2>1. /\ selected \in EnumValues
          /\ contract = PatternInfo(selected)
          /\ cphase = "typed"
        BY <1>2 DEF Send, IInv
    <2>2. chan' # Undefined
        <3>1. /\ Get(PatternToString, selected) = PatternToString[selected]
              /\ PatternToString[selected] \in STRING
            BY <2>1, MemberFacts, GetPresent
        <3>2. RequestOf(contract) \in STRING \cup {Undefined}
            BY <2>1, MemberFacts DEF IInv, TypeOK, RequestOf, Contract
        <3>3. chan' \in Message
            BY <1>2, <3>1, <3>2 DEF Send, Message, Value
        <3>4. QED
            BY <3>3, TablesAssumption
    <2>3. Command!Call(selected)
        BY <1>2, <2>1, <2>2 DEF Send, Command!Call, CommandPhase, CommandPayload
    <2>4. QED
        BY <2>1, <2>3 DEF Command!Next
<1>3. ASSUME NEW s \in WireInputs, PeerSend(s) PROVE UNCHANGED Command!vars
    BY <1>3 DEF PeerSend, CommandPhase, CommandPayload
<1>4. CASE Execute
    <2>1. CASE cphase = "waiting"
        <3>1. /\ selected \in EnumValues
              /\ contract = PatternInfo(selected)
              /\ chan.origin = "client"
              /\ chan.payload = RequestOf(contract)
              /\ Get(StringToPattern, chan.wire) = selected
            BY <1>4, <2>1, ExecuteResolves DEF Execute
        <3>2. /\ CommandPhase = "pending"
              /\ CommandPhase' = "answered"
            BY <1>4, <2>1, TablesAssumption DEF Execute, CommandPhase
        <3>3. Command!Respond
            BY <1>4, <2>1, <3>1, <3>2 DEF Execute, Command!Respond, CommandPayload
        <3>4. QED
            BY <3>3 DEF Command!Next
    <2>2. CASE cphase # "waiting"
        BY <1>4, <2>2 DEF Execute, CommandPhase, CommandPayload
    <2>3. QED
        BY <2>1, <2>2
<1>5. CASE Complete
    <2>1. Command!Return
        BY <1>5, TablesAssumption DEF Complete, Command!Return, CommandPhase, CommandPayload
    <2>2. QED
        BY <2>1 DEF Command!Next
<1>6. CASE UNCHANGED vars
    BY <1>6 DEF vars, CommandPhase, CommandPayload
<1>7. QED
    BY <1>1, <1>2, <1>3, <1>4, <1>5, <1>6 DEF Next

\* Spec 6 and 8, whenever the two lookups are consistent: the exchange
\* implements a typed command (ImplementsCommandContract): the client's
\* command carries the Request shape of the contract PatternInfo gave for
\* the pattern it selected, and completes with that contract's Response
\* shape, whatever IPatternConfig holds.
THEOREM RefinesCommandContract ==
    ASSUME LookupsConsistent
    PROVE  Spec => ImplementsCommandContract
<1>1. Init => IInv
    BY InitIInv
<1>2. IInv /\ [Next]_vars => IInv'
    BY IInvInductive
<1>3. Init => Command!Init
    BY DEF Init, Command!Init, CommandPhase, CommandPayload
<1>4. IInv /\ [Next]_vars => [Command!Next]_Command!vars
    BY CommandStep
<1>5. QED
    BY <1>1, <1>2, <1>3, <1>4, PTL DEF Spec, ImplementsCommandContract, Command!Spec

=============================================================================
