------------------------- MODULE MCPatternRegistry -------------------------
(***************************************************************************)
(* PatternRegistry instantiated with the tables of src/generated/client.ts *)
(* (module ClientTables) for TLC.                                          *)
(***************************************************************************)
EXTENDS PatternRegistry, ClientTables

\* The properties of Object.prototype every object literal inherits.
MCProtoKeys ==
    {"constructor", "hasOwnProperty", "isPrototypeOf", "propertyIsEnumerable",
     "toLocaleString", "toString", "valueOf", "__proto__",
     "__defineGetter__", "__defineSetter__", "__lookupGetter__",
     "__lookupSetter__"}

\* What a peer may send: every wire string of the enumeration, strings one
\* edit away from one (a trailing slash, the lower-cased UpgradeK8sManager,
\* a member name instead of its value), a string the spec names as unknown,
\* and names of Object.prototype.
MCWireInputs ==
    {RealPatternEnum[i][2] : i \in 1 .. Len(RealPatternEnum)}
    \cup {"get/user/", "upgradek8smanager", "GET_USER", "not/a/real/pattern",
          "constructor", "toString", "__proto__", "hasOwnProperty"}

=============================================================================
