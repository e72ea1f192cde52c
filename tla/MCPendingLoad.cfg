\* Both ZMS calls answering with err, data or both, in either order.
CONSTANTS
    Calls = {1, 2}
    Responses <- MCResponses
    Errors = {ServerError}
    Pending = Pending
    RolePayloads <- MCPayloads
    GroupPayloads <- MCPayloads
    Undefined = Undefined
    Null = Null
    NoReply = NoReply
    EmptyReplies = FALSE
SPECIFICATION Spec
INVARIANT TypeOK
PROPERTY ImplementsLoadSpec
PROPERTY LoadFinishes
\* The load ends with the map built or failed: no step is then enabled.
CHECK_DEADLOCK FALSE
