\* Spec claim RoleEntriesFirst against every pair of small payloads.
CONSTANTS
    RolePayloads <- MCPayloads
    GroupPayloads <- MCPayloads
    Undefined = Undefined
    Null = Null
SPECIFICATION Spec
\* The function returns: once both loops are done no step is enabled.
INVARIANT RoleEntriesFirst
CHECK_DEADLOCK FALSE
