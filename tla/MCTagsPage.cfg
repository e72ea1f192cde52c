\* The five calls of the tags page settling in every order and way.
CONSTANTS
    Calls = {1, 2, 3, 4, 5}
    Responses <- MCResponses
    Errors = {ReloadError, ServerError}
    Pending = Pending
    Undefined = Undefined
    Null = Null
    ReloadError = ReloadError
    JSFalse = JSFalse
    None = None
    QueryDomain = QueryDomain
    QueryGroup = QueryGroup
SPECIFICATION Spec
INVARIANT TypeOK
INVARIANT RenderedOnlyWithAllData
INVARIANT PropsWiredToCalls
\* The request is served once the page has rendered.
CHECK_DEADLOCK FALSE
