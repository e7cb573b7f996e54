CONSTANTS
    Aliases <- ClientAliases
    Decls <- ClientDecls
    Replies <- MCReplies
    Payloads <- MCPayloads
    None = None

INIT RInit
NEXT RNext

INVARIANT RequestNumbersDecode
