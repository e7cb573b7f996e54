CONSTANTS
    Aliases <- ClientAliases
    Decls <- ClientDecls
    Replies <- MCReplies
    None = None

SPECIFICATION Spec

INVARIANT ReplyConforms
