\* Spec claim SizeEqualsDistinctTriples against every pair of small payloads.
CONSTANTS
    RolePayloads <- MCPayloads
    GroupPayloads <- MCPayloads
    Undefined = Undefined
    Null = Null
SPECIFICATION Spec
\* The function returns: once both loops are done no step is enabled.
INVARIANT SizeEqualsDistinctTriples
CHECK_DEADLOCK FALSE
