CONSTANTS
    Aliases <- ClientAliases
    Decls <- ClientDecls
    Replies <- MCReplies
    None = None

SPECIFICATION Spec

INVARIANT StructsAgree
INVARIANT FieldsAgree
