\* A ZMS callback may carry neither err nor data: does every load end?
CONSTANTS
    Calls = {1, 2}
    Responses <- MCResponses
    Errors = {ServerError}
    Pending = Pending
    RolePayloads <- MCPayloads
    GroupPayloads <- MCPayloads
    Undefined = Undefined
    Null = Null
    NoReply = NoReply
    EmptyReplies = TRUE
SPECIFICATION Spec
PROPERTY LoadFinishes
\* The load ends with the map built or failed: no step is then enabled.
CHECK_DEADLOCK FALSE
