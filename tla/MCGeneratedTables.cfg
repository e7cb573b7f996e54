CONSTANTS
    PatternEnum <- RealPatternEnum
    StringToPatternEntries <- RealStringToPattern
    PatternToStringEntries <- RealPatternToString
    PatternConfigEntries <- RealPatternConfig
    ProtoKeys <- MCProtoKeys
    WireInputs <- MCWireInputs
    Undefined = Undefined
    Inherited = Inherited

SPECIFICATION Spec

INVARIANT NoDefaultForUnknown
