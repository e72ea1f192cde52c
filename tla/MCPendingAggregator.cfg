\* Every pair of small role and group payloads, aggregated to the end.
CONSTANTS
    RolePayloads <- MCPayloads
    GroupPayloads <- MCPayloads
    Undefined = Undefined
    Null = Null
SPECIFICATION Spec
INVARIANT TypeOK
INVARIANT AggregateMatchesReference
\* The function returns: once both loops are done no step is enabled.
CHECK_DEADLOCK FALSE
